---- MODULE Spec2Model ----
(***************************************************************************)
(* A model of portkill's platform adapters (src/src/adapters): the         *)
(* two-phase killProcess state machine, the port lookup findProcessByPort  *)
(* with its output parser and its failure classification, and the per-PID  *)
(* lookup getProcessDetails, for the Unix and the Windows adapter; of the   *)
(* PortManager (src/src/core/port-manager.ts) that sits on an adapter; and *)
(* of the validators and the Process constructor.                          *)
(*                                                                         *)
(* External commands (execAsync) are the environment: every invocation     *)
(* resolves with some stdout or rejects with an error object carrying an   *)
(* exit code, a stderr text and a message.  A text is modelled by what the *)
(* code reads of it: stderr and message by the set of marker substrings    *)
(* they contain (String.includes), a stdout line by its whitespace-        *)
(* separated tokens, a numeral by its characters (parseInt).               *)
(* The JavaScript value of a `code` property is modelled as a string: the  *)
(* numeral of an exit status, "undefined", or the constant of an error     *)
(* class ("SYSTEM_ERROR").                                                 *)
(***************************************************************************)
EXTENDS Integers, Sequences, FiniteSets, TLC

VARIABLES
    platform,   \* the adapter in use: "unix" or "windows"
    kpc,        \* position inside killProcess
    kpid,       \* the pid killProcess was called with
    klog,       \* the external commands killProcess has issued, in order
    kresult,    \* how killProcess ended: pending, a return value or an error
    fpc,        \* position of the lookup operation (findProcessByPort / getProcessDetails)
    fport,      \* the port findProcessByPort was called with
    fexec,      \* what the discovery command did (resolved with lines / rejected)
    ftasklist,  \* what the per-PID detail command does for each pid (Windows scan)
    fresult,    \* how findProcessByPort ended
    dpid,       \* the pid getProcessDetails was called with
    dexec,      \* what the detail command did
    dresult,    \* how getProcessDetails ended
    adapter,    \* PortManager.adapter: "null" or the adapter instance
    initialized,\* PortManager._initialized
    mcalls,     \* number of PortManager operations called so far
    mlast,      \* the last PortManager operation: its steps and its outcome
    vfun,       \* the pure function under check
    vin,        \* its input
    vout,       \* its outcome: pending, a value or an error
    cliSource,  \* which of the two sources of class CLI runs
    copts,      \* the command line: --yes, --verbose, and whether a port was given
    cenv,       \* process.env: PORTKILL_LOG_LEVEL and LOG_LEVEL
    clevels,    \* the level each Logger instance read when it was constructed
    cpc,        \* position of the port command
    cprocs,     \* the `processes` array of the port command (pids)
    ci,         \* index of the loop over `processes`
    crounds,    \* rounds of the process menu shown so far
    ctrace,     \* what the port command did, in order: calls of the port manager,
                \* prompts and their answers, lines printed, log calls
    tasks,      \* two overlapping operations of one PortManager: position,
                \* operation and the adapter each one used
    initSteps,  \* how often initialize() selected, constructed and tested an adapter
    overlapped  \* the second operation began while the first was initializing

vars == <<platform, kpc, kpid, klog, kresult,
          fpc, fport, fexec, ftasklist, fresult, dpid, dexec, dresult,
          adapter, initialized, mcalls, mlast, vfun, vin, vout,
          cliSource, copts, cenv, clevels, cpc, cprocs, ci, crounds, ctrace,
          tasks, initSteps, overlapped>>

managerVars == <<adapter, initialized, mcalls, mlast>>
functionVars == <<vfun, vin, vout>>
cliVars == <<cliSource, copts, cenv, clevels, cpc, cprocs, ci, crounds, ctrace>>
overlapVars == <<tasks, initSteps, overlapped>>

killVars == <<kpc, kpid, klog, kresult>>
lookupVars == <<fpc, fport, fexec, ftasklist, fresult, dpid, dexec, dresult>>

Platforms == {"unix", "windows"}

(***************************************************************************)
(* Bounds of the model.                                                    *)
(***************************************************************************)
\* longest discovery output, in data lines
MaxLines == 3

\* pids killProcess / getProcessDetails are called with
TargetPids == {12, 34}

\* exit statuses a failed command may carry ("undefined": the error has no code)
ExitCodes == {"undefined", "1", "2", "128"}

(***************************************************************************)
(* Error objects.  pid is an optional value: <<>> is null, <<p>> is p.     *)
(***************************************************************************)
NoError ==
    [kind |-> "none", code |-> "undefined", pid |-> <<>>, command |-> "",
     exitCode |-> "null", message |-> ""]

\* a rejection of execAsync, as the adapter sees it
RawError(code, message) ==
    [kind |-> "Error", code |-> code, pid |-> <<>>, command |-> "",
     exitCode |-> "null", message |-> message]

\* new SystemError(message, command, exitCode): an undefined exitCode takes the
\* parameter's default, null
SystemError(message, command, exitCode) ==
    [kind |-> "SystemError", code |-> "SYSTEM_ERROR", pid |-> <<>>,
     command |-> command,
     exitCode |-> IF exitCode = "undefined" THEN "null" ELSE exitCode,
     message |-> message]

\* new PermissionError(message, pid)
PermissionError(message, pid) ==
    [kind |-> "PermissionError", code |-> "PERMISSION_ERROR", pid |-> pid,
     command |-> "", exitCode |-> "null", message |-> message]

\* new NetworkError(message, port, operation); the operation label is kept in
\* the command field, the port in the pid field's place
NetworkError(message, port, operation) ==
    [kind |-> "NetworkError", code |-> "NETWORK_ERROR", pid |-> <<port>>,
     command |-> operation, exitCode |-> "null", message |-> message]

\* new ValidationError(message)
ValidationError(message) ==
    [kind |-> "ValidationError", code |-> "VALIDATION_ERROR", pid |-> <<>>,
     command |-> "", exitCode |-> "null", message |-> message]

(***************************************************************************)
(* killProcess: the termination commands and the liveness poll.            *)
(***************************************************************************)
\* marker substrings the signal step looks for in stderr
KillMarkers(plat) ==
    IF plat = "unix"
    THEN {"Operation not permitted", "No such process", "Invalid argument"}
    ELSE {"Access is denied", "not found", "not recognized", "Invalid argument"}

\* what a termination command can do: resolve, or reject with a code and a stderr
KillExecOutcomes(plat) ==
    {[ok |-> TRUE, code |-> "undefined", stderr |-> {}, stdout |-> ""]}
    \cup {[ok |-> FALSE, code |-> c, stderr |-> s, stdout |-> ""] :
            c \in ExitCodes, s \in SUBSET KillMarkers(plat)}

\* stdout texts of the liveness command: nothing, white space only, a process
\* row, tasklist's "no tasks" notice
PollStdouts == {"", " ", "12 user node", "INFO: No tasks are running"}

\* what the liveness command can do
PollExecOutcomes ==
    {[ok |-> TRUE, code |-> "undefined", stderr |-> {}, stdout |-> s] : s \in PollStdouts}
    \cup {[ok |-> FALSE, code |-> c, stderr |-> {}, stdout |-> ""] : c \in {"undefined", "1"}}

\* stdout.trim().length > 0
TrimmedNonEmpty(stdout) == stdout \notin {"", " "}

\* the command line of a termination step
KillCommand(plat, force) ==
    IF plat = "unix"
    THEN (IF force THEN "kill -KILL" ELSE "kill -TERM")
    ELSE (IF force THEN "taskkill /F" ELSE "taskkill")

\* the command line of the liveness poll
PollCommand(plat) == IF plat = "unix" THEN "ps -p" ELSE "tasklist"

Returned == [threw |-> FALSE, err |-> NoError]
Threw(e) == [threw |-> TRUE, err |-> e]

\* _killWithSignal without its "No such process" rule: the report is rethrown
UnixKillWithSignalStrict(p, force, o) ==
    IF o.ok THEN Returned
    ELSE IF o.code = "1" /\ "Operation not permitted" \in o.stderr
         THEN Threw(PermissionError("Permission denied when trying to kill process", <<p>>))
    ELSE IF "Invalid argument" \in o.stderr
         THEN Threw(SystemError("Invalid signal or process ID when trying to kill process",
                                KillCommand("unix", force), o.code))
    ELSE Threw(RawError(o.code, "Command failed"))

\* UnixAdapter._killWithSignal, given what `kill -SIGNAL pid` did
UnixKillWithSignal(p, force, o) ==
    IF o.ok THEN Returned
    ELSE IF o.code = "1" /\ "Operation not permitted" \in o.stderr
         THEN Threw(PermissionError("Permission denied when trying to kill process", <<p>>))
    ELSE IF o.code = "1" /\ "No such process" \in o.stderr
         THEN Returned
    ELSE IF "Invalid argument" \in o.stderr
         THEN Threw(SystemError("Invalid signal or process ID when trying to kill process",
                                KillCommand("unix", force), o.code))
    ELSE Threw(RawError(o.code, "Command failed"))

\* _killWithForce testing for a missing taskkill before the "not found" of
\* an absent process
WindowsKillWithForceToolFirst(p, force, o) ==
    IF o.ok THEN Returned
    ELSE IF o.code = "128" /\ "Access is denied" \in o.stderr
         THEN Threw(PermissionError("Permission denied when trying to kill process", <<p>>))
    ELSE IF "not recognized" \in o.stderr \/ "not found" \in o.stderr
         THEN Threw(SystemError("taskkill command not found",
                                KillCommand("windows", force), o.code))
    ELSE IF o.code = "128" /\ "not found" \in o.stderr
         THEN Returned
    ELSE IF "Invalid argument" \in o.stderr
         THEN Threw(SystemError("Invalid process ID or taskkill parameters",
                                KillCommand("windows", force), o.code))
    ELSE Threw(RawError(o.code, "Command failed"))

\* WindowsAdapter._killWithForce, given what `taskkill /PID pid [/F]` did
WindowsKillWithForce(p, force, o) ==
    IF o.ok THEN Returned
    ELSE IF o.code = "128" /\ "Access is denied" \in o.stderr
         THEN Threw(PermissionError("Permission denied when trying to kill process", <<p>>))
    ELSE IF o.code = "128" /\ "not found" \in o.stderr
         THEN Returned
    ELSE IF "not recognized" \in o.stderr \/ "not found" \in o.stderr
         THEN Threw(SystemError("taskkill command not found",
                                KillCommand("windows", force), o.code))
    ELSE IF "Invalid argument" \in o.stderr
         THEN Threw(SystemError("Invalid process ID or taskkill parameters",
                                KillCommand("windows", force), o.code))
    ELSE Threw(RawError(o.code, "Command failed"))

\* the signal step of the adapter in use
KillStep(plat, p, force, o) ==
    IF plat = "unix" THEN UnixKillWithSignal(p, force, o)
    ELSE WindowsKillWithForce(p, force, o)

PollFailedMeansRunning(plat, o) == TRUE

\* the value _isProcessRunning gives when the liveness command rejects
PollFailureValue(plat, o) == FALSE

\* _isProcessRunning of either adapter, given what the liveness command did
IsProcessRunning(plat, o) ==
    IF ~o.ok THEN PollFailureValue(plat, o)
    ELSE IF plat = "unix" THEN TrimmedNonEmpty(o.stdout)
    ELSE TrimmedNonEmpty(o.stdout) /\ o.stdout # "INFO: No tasks are running"

\* a catch block that lets everything through
KillCatchRethrowsAll(plat, p, e) == e

KillCatchWrapsAll(plat, p, e) ==
    SystemError("Failed to kill process", KillCommand(plat, FALSE), e.code)

\* the catch block of killProcess: a PermissionError passes, anything else is
\* wrapped as a SystemError whose exit code is the caught object's `code`
KillCatch(plat, p, e) ==
    IF e.kind = "PermissionError" THEN e
    ELSE SystemError("Failed to kill process", KillCommand(plat, FALSE), e.code)

Pending == [status |-> "pending", value |-> FALSE, err |-> NoError]
Return(v) == [status |-> "return", value |-> v, err |-> NoError]
Throw(e) == [status |-> "throw", value |-> FALSE, err |-> e]

\* one issued command: its command line, the pid, what it did, and how the
\* private helper that issued it ended ("ok" / "threw" for a termination step,
\* "running" / "not running" for a poll)
LogEntry(cmd, p, o, ret) == [cmd |-> cmd, pid |-> p, out |-> o, ret |-> ret]

\* killProcess(pid) is called
KillProcessCall ==
    /\ kpc = "idle"
    /\ \E p \in TargetPids : kpid' = p
    /\ kpc' = "graceful"
    /\ UNCHANGED <<platform, klog, kresult, lookupVars, managerVars, functionVars, cliVars, overlapVars>>

\* a termination step (graceful or forced) and, when it throws, the catch block
KillSignal(force, next) ==
    \E o \in KillExecOutcomes(platform) :
        LET r == KillStep(platform, kpid, force, o) IN
        /\ klog' = Append(klog, LogEntry(KillCommand(platform, force), kpid, o,
                                         IF r.threw THEN "threw" ELSE "ok"))
        /\ IF r.threw
           THEN /\ kresult' = Throw(KillCatch(platform, kpid, r.err))
                /\ kpc' = "done"
           ELSE /\ kresult' = kresult
                /\ kpc' = next
        /\ UNCHANGED <<platform, kpid, lookupVars, managerVars, functionVars, cliVars, overlapVars>>

\* step 1: the graceful signal
KillGraceful ==
    /\ kpc = "graceful"
    /\ KillSignal(FALSE, "poll1")

\* steps 2-3: the 1000 ms pause, then the first poll; dead means success
KillPoll1 ==
    /\ kpc = "poll1"
    /\ \E o \in PollExecOutcomes :
        LET isRunning == IsProcessRunning(platform, o) IN
        /\ klog' = Append(klog, LogEntry(PollCommand(platform), kpid, o,
                                         IF isRunning THEN "running" ELSE "not running"))
        /\ IF ~isRunning
           THEN /\ kresult' = Return(TRUE)
                /\ kpc' = "done"
           ELSE /\ kresult' = kresult
                /\ kpc' = "forced"
    /\ UNCHANGED <<platform, kpid, lookupVars, managerVars, functionVars, cliVars, overlapVars>>

\* step 4: the forced signal
KillForced ==
    /\ kpc = "forced"
    /\ KillSignal(TRUE, "poll2")

FinalValueIsRunning(isStillRunning) == isStillRunning

\* the value killProcess returns after the second poll
FinalValue(isStillRunning) == ~isStillRunning

\* steps 5-6: the 500 ms pause, then the second poll decides the return value
KillPoll2 ==
    /\ kpc = "poll2"
    /\ \E o \in PollExecOutcomes :
        LET isStillRunning == IsProcessRunning(platform, o) IN
        /\ klog' = Append(klog, LogEntry(PollCommand(platform), kpid, o,
                                         IF isStillRunning THEN "running" ELSE "not running"))
        /\ kresult' = Return(FinalValue(isStillRunning))
        /\ kpc' = "done"
    /\ UNCHANGED <<platform, kpid, lookupVars, managerVars, functionVars, cliVars, overlapVars>>


(***************************************************************************)
(* Texts the parsers read character by character: the numerals of the pid  *)
(* column and the local addresses of netstat.  Chars spells a token out.   *)
(***************************************************************************)
Chars(tok) ==
    CASE tok = "12" -> <<"1", "2">>
      [] tok = "34" -> <<"3", "4">>
      [] tok = "0" -> <<"0">>
      [] tok = "-1" -> <<"-", "1">>
      [] tok = "ab" -> <<"a", "b">>
      [] tok = "0.0.0.0:30" -> <<"0", ".", "0", ".", "0", ".", "0", ":", "3", "0">>
      [] tok = "0.0.0.0:300" -> <<"0", ".", "0", ".", "0", ".", "0", ":", "3", "0", "0">>
      [] tok = "[::]:30" -> <<"[", ":", ":", "]", ":", "3", "0">>
      [] tok = "" -> <<>>
      [] tok = "1" -> <<"1">>
      [] tok = "30" -> <<"3", "0">>
      [] tok = "+30" -> <<"+", "3", "0">>
      [] tok = " 30" -> <<" ", "3", "0">>
      [] tok = "30abc" -> <<"3", "0", "a", "b", "c">>
      [] tok = "3.14" -> <<"3", ".", "1", "4">>
      [] tok = "65535" -> <<"6", "5", "5", "3", "5">>
      [] tok = "65536" -> <<"6", "5", "5", "3", "6">>
      [] tok = "pid" -> <<"p", "i", "d">>
      [] tok = "name" -> <<"n", "a", "m", "e">>
      [] tok = "user" -> <<"u", "s", "e", "r">>
      [] tok = "protocol" -> <<"p", "r", "o", "t", "o", "c", "o", "l">>
      [] tok = "port" -> <<"p", "o", "r", "t">>
      [] tok = "command" -> <<"c", "o", "m", "m", "a", "n", "d">>
      [] tok = "node" -> <<"n", "o", "d", "e">>
      [] tok = "dev" -> <<"d", "e", "v">>
      [] tok = "TCP" -> <<"T", "C", "P">>
      [] tok = "UDP" -> <<"U", "D", "P">>
      [] tok = "tcp" -> <<"t", "c", "p">>
      [] tok = "node server.js" ->
            <<"n", "o", "d", "e", " ", "s", "e", "r", "v", "e", "r", ".", "j", "s">>
      [] tok = "a\"b" -> <<"a", "\"", "b">>
      [] tok = "c\\d" -> <<"c", "\\", "d">>
      [] OTHER -> <<"?">>

DigitChars == <<"0", "1", "2", "3", "4", "5", "6", "7", "8", "9">>

IsDigit(c) == \E d \in 1..10 : DigitChars[d] = c

DigitValue(c) == (CHOOSE d \in 1..10 : DigitChars[d] = c) - 1

\* the digits parseInt consumes from position i on; nan when there is none
RECURSIVE ParseDigits(_, _, _, _)
ParseDigits(cs, i, acc, any) ==
    IF i > Len(cs) \/ ~IsDigit(cs[i])
    THEN [nan |-> ~any, val |-> acc]
    ELSE ParseDigits(cs, i + 1, acc * 10 + DigitValue(cs[i]), TRUE)

\* the position of the first character that is not white space
RECURSIVE SkipWhiteSpace(_, _)
SkipWhiteSpace(cs, i) ==
    IF i <= Len(cs) /\ cs[i] = " " THEN SkipWhiteSpace(cs, i + 1) ELSE i

\* parseInt(tok): leading white space is skipped, then an optional sign, then
\* the leading digits; NaN without digits; what follows the digits is ignored
ParseInt(tok) ==
    LET cs == Chars(tok)
        i == SkipWhiteSpace(cs, 1)
    IN IF i <= Len(cs) /\ cs[i] = "-"
       THEN LET r == ParseDigits(cs, i + 1, 0, FALSE) IN [nan |-> r.nan, val |-> 0 - r.val]
       ELSE IF i <= Len(cs) /\ cs[i] = "+"
       THEN ParseDigits(cs, i + 1, 0, FALSE)
       ELSE ParseDigits(cs, i, 0, FALSE)

\* the decimal numeral of a positive integer, as `:${port}` interpolates it
RECURSIVE DecimalChars(_)
DecimalChars(n) ==
    IF n < 10 THEN <<DigitChars[n + 1]>>
    ELSE Append(DecimalChars(n \div 10), DigitChars[(n % 10) + 1])

\* new RegExp(`:${port}(\\s|$)`).test(localAddress): the address token holds no
\* white space, so the pattern matches exactly at its end
PortPatternTest(port, localAddress) ==
    LET cs == Chars(localAddress)
        pat == <<":">> \o DecimalChars(port)
    IN /\ Len(cs) >= Len(pat)
       /\ SubSeq(cs, Len(cs) - Len(pat) + 1, Len(cs)) = pat

(***************************************************************************)
(* The Process record (src/src/models/process.ts).                         *)
(***************************************************************************)
MaxPort == 65535

\* Process._validate: the first failing check throws
ProcessIsValid(o) ==
    /\ o.pid > 0
    /\ o.name # ""
    /\ o.user # ""
    /\ o.protocol \in {"TCP", "UDP"}
    /\ o.port >= 1 /\ o.port <= MaxPort

\* new Process(options): the instance, or the constructor threw
NewProcess(o) ==
    IF ProcessIsValid(o)
    THEN [threw |-> FALSE, value |-> o]
    ELSE [threw |-> TRUE, value |-> o]

\* a || b on strings
OrElse(a, b) == IF a # "" THEN a ELSE b

(***************************************************************************)
(* JavaScript values handed to the validators and to the Process           *)
(* constructor.  A number is an integer, a non-integer (num is its floor), *)
(* NaN or Infinity.                                                        *)
(***************************************************************************)
JsInteger(n) == [type |-> "number", form |-> "integer", num |-> n, str |-> ""]
JsFraction(n) == [type |-> "number", form |-> "fraction", num |-> n, str |-> ""]
JsNaN == [type |-> "number", form |-> "NaN", num |-> 0, str |-> ""]
JsInfinity == [type |-> "number", form |-> "Infinity", num |-> 0, str |-> ""]
JsString(s) == [type |-> "string", form |-> "", num |-> 0, str |-> s]
JsNull == [type |-> "null", form |-> "", num |-> 0, str |-> ""]
JsUndefined == [type |-> "undefined", form |-> "", num |-> 0, str |-> ""]

\* Number.isInteger(v)
NumberIsInteger(v) == v.type = "number" /\ v.form = "integer"

\* isNaN(v): the value is converted to a number first (null to 0)
IsNaN(v) ==
    \/ v.type = "number" /\ v.form = "NaN"
    \/ v.type = "undefined"
    \/ v.type = "string" /\ ParseInt(v.str).nan

\* typeof v === 'string' ? parseInt(v, 10) : v
ToNumber(v) ==
    IF v.type = "string"
    THEN LET r == ParseInt(v.str) IN IF r.nan THEN JsNaN ELSE JsInteger(r.val)
    ELSE v

\* the outcome of a validator: the number it returns or the error it throws
Valid(n) == [threw |-> FALSE, value |-> n, err |-> NoError]
Invalid(e) == [threw |-> TRUE, value |-> 0, err |-> e]

\* validatePort(port)
ValidatePort(port) ==
    LET portNum == ToNumber(port) IN
    IF ~NumberIsInteger(portNum) \/ IsNaN(portNum)
    THEN Invalid(ValidationError("Invalid port number"))
    ELSE IF portNum.num < 1 \/ portNum.num > MaxPort
    THEN Invalid(ValidationError("Port is out of range"))
    ELSE Valid(portNum.num)

\* validatePid(pid)
ValidatePid(pid) ==
    LET pidNum == ToNumber(pid) IN
    IF ~NumberIsInteger(pidNum) \/ IsNaN(pidNum) \/ pidNum.num <= 0
    THEN Invalid(ValidationError("Invalid process ID"))
    ELSE Valid(pidNum.num)

\* the values the validators are tried on
NumeralStrings == {"30", "12", "1", "0", "-1", "+30", "65535", "65536"}
OtherStrings == {"", "ab", " 30", "30abc", "3.14"}
ValidatorInputs ==
    {JsInteger(n) : n \in {-1, 0, 1, 30, MaxPort, MaxPort + 1}}
    \cup {JsFraction(3), JsFraction(-1), JsNaN, JsInfinity, JsNull, JsUndefined}
    \cup {JsString(s) : s \in NumeralStrings \cup OtherStrings}

\* a constructor that lets an empty user through
ConstructProcessAnyUser(opts) ==
    LET command == IF opts.command.type = "undefined" THEN JsString("") ELSE opts.command
        o == [pid |-> opts.pid.num, name |-> opts.name.str, user |-> opts.user.str,
              protocol |-> opts.protocol.str, port |-> opts.port.num,
              command |-> command.str]
    IN IF /\ NumberIsInteger(opts.pid)
          /\ opts.name.type = "string"
          /\ opts.protocol.type = "string"
          /\ NumberIsInteger(opts.port)
          /\ command.type = "string"
          /\ ProcessIsValid([o EXCEPT !.user = "anyone"])
       THEN [threw |-> FALSE, value |-> o]
       ELSE [threw |-> TRUE, value |-> o]

\* new Process({pid, name, user, protocol, port, command = ''}) on arbitrary
\* values: the default of command, the type tests of _validate, then its
\* tests on the values
ConstructProcess(opts) ==
    LET command == IF opts.command.type = "undefined" THEN JsString("") ELSE opts.command
        o == [pid |-> opts.pid.num, name |-> opts.name.str, user |-> opts.user.str,
              protocol |-> opts.protocol.str, port |-> opts.port.num,
              command |-> command.str]
    IN IF /\ NumberIsInteger(opts.pid)
          /\ opts.name.type = "string"
          /\ opts.user.type = "string"
          /\ opts.protocol.type = "string"
          /\ NumberIsInteger(opts.port)
          /\ command.type = "string"
       THEN NewProcess(o)
       ELSE [threw |-> TRUE, value |-> o]

\* the options the constructor is tried on
ProcessOptionInputs ==
    [pid : {JsInteger(12), JsInteger(0), JsInteger(-1), JsFraction(3)},
     name : {JsString("node"), JsString(""), JsNull},
     user : {JsString("dev"), JsString("")},
     protocol : {JsString("TCP"), JsString("UDP"), JsString("tcp"), JsString("")},
     port : {JsInteger(30), JsInteger(1), JsInteger(0), JsInteger(MaxPort),
             JsInteger(MaxPort + 1), JsFraction(30)},
     command : {JsUndefined, JsString("node server.js"), JsString(""), JsNull}]

(***************************************************************************)
(* Process serialization: toObject, toJSON, fromObject, fromJSON.  A JSON  *)
(* text is the sequence of its characters; JSON.stringify writes it and    *)
(* JSON.parse reads it back, for the values a Process holds: integers and  *)
(* strings.                                                                *)
(***************************************************************************)
\* the strings the model can spell
SpelledStrings ==
    {"", "pid", "name", "user", "protocol", "port", "command", "node", "dev",
     "TCP", "UDP", "tcp", "node server.js", "a\"b", "c\\d", "ab"}

\* the string with the given spelling
FromChars(cs) ==
    IF \E str \in SpelledStrings : Chars(str) = cs
    THEN CHOOSE str \in SpelledStrings : Chars(str) = cs
    ELSE "?"

\* the property names of toObject(), in the order it writes them
ProcessKeys == <<"pid", "name", "user", "protocol", "port", "command">>

\* Process.toObject()
ToObject(p) ==
    [pid |-> JsInteger(p.pid), name |-> JsString(p.name), user |-> JsString(p.user),
     protocol |-> JsString(p.protocol), port |-> JsInteger(p.port),
     command |-> JsString(p.command)]

\* Process.fromObject(obj)
FromObject(obj) == ConstructProcess(obj)

\* a writer that escapes nothing
JsonEscapeNone(c) == <<c>>

\* how JSON.stringify writes one character of a string
JsonEscape(c) ==
    IF c = "\"" THEN <<"\\", "\"">>
    ELSE IF c = "\\" THEN <<"\\", "\\">>
    ELSE <<c>>

RECURSIVE JsonEscapeFrom(_, _)
JsonEscapeFrom(cs, i) ==
    IF i > Len(cs) THEN <<>> ELSE JsonEscape(cs[i]) \o JsonEscapeFrom(cs, i + 1)

\* a string literal of a JSON text
JsonQuote(cs) == <<"\"">> \o JsonEscapeFrom(cs, 1) \o <<"\"">>

\* a number of a JSON text
JsonNumber(n) == IF n < 0 THEN <<"-">> \o DecimalChars(0 - n) ELSE DecimalChars(n)

\* JSON.stringify of a property value; null, NaN and Infinity are written null
JsonValue(v) ==
    CASE v.type = "string" -> JsonQuote(Chars(v.str))
      [] v.type = "number" /\ v.form = "integer" -> JsonNumber(v.num)
      [] OTHER -> <<"n", "u", "l", "l">>

RECURSIVE JsonMembers(_, _)
JsonMembers(obj, k) ==
    IF k > Len(ProcessKeys) THEN <<>>
    ELSE (IF k > 1 THEN <<",">> ELSE <<>>)
         \o JsonQuote(Chars(ProcessKeys[k])) \o <<":">> \o JsonValue(obj[ProcessKeys[k]])
         \o JsonMembers(obj, k + 1)

\* JSON.stringify(obj) of the object toObject() returns
JsonStringify(obj) == <<"{">> \o JsonMembers(obj, 1) \o <<"}">>

\* Process.toJSON()
ToJSON(p) == JsonStringify(ToObject(p))

\* JSON.parse reading a string literal from the character after its opening
\* quote: the characters it denotes and the position after its closing quote
RECURSIVE JsonReadString(_, _, _)
JsonReadString(cs, i, acc) ==
    IF i > Len(cs) THEN [ok |-> FALSE, chars |-> acc, next |-> i]
    ELSE IF cs[i] = "\"" THEN [ok |-> TRUE, chars |-> acc, next |-> i + 1]
    ELSE IF cs[i] = "\\"
    THEN IF i + 1 > Len(cs) \/ cs[i + 1] \notin {"\"", "\\"}
         THEN [ok |-> FALSE, chars |-> acc, next |-> i]
         ELSE JsonReadString(cs, i + 2, Append(acc, cs[i + 1]))
    ELSE JsonReadString(cs, i + 1, Append(acc, cs[i]))

\* the position after the digits that start at i
RECURSIVE JsonDigitsEnd(_, _)
JsonDigitsEnd(cs, i) ==
    IF i <= Len(cs) /\ IsDigit(cs[i]) THEN JsonDigitsEnd(cs, i + 1) ELSE i

JsonNoValue == [ok |-> FALSE, value |-> JsUndefined, next |-> 0]

\* JSON.parse reading a value at i: a string, an integer or null
JsonReadValue(cs, i) ==
    IF i > Len(cs) THEN JsonNoValue
    ELSE IF cs[i] = "\""
    THEN LET r == JsonReadString(cs, i + 1, <<>>)
         IN [ok |-> r.ok, value |-> JsString(FromChars(r.chars)), next |-> r.next]
    ELSE IF cs[i] = "-"
    THEN LET d == ParseDigits(cs, i + 1, 0, FALSE)
         IN [ok |-> ~d.nan, value |-> JsInteger(0 - d.val), next |-> JsonDigitsEnd(cs, i + 1)]
    ELSE IF IsDigit(cs[i])
    THEN [ok |-> TRUE, value |-> JsInteger(ParseDigits(cs, i, 0, FALSE).val),
          next |-> JsonDigitsEnd(cs, i)]
    ELSE IF i + 3 <= Len(cs) /\ SubSeq(cs, i, i + 3) = <<"n", "u", "l", "l">>
    THEN [ok |-> TRUE, value |-> JsNull, next |-> i + 4]
    ELSE JsonNoValue

\* an object none of whose properties is set
NoProperties ==
    [pid |-> JsUndefined, name |-> JsUndefined, user |-> JsUndefined,
     protocol |-> JsUndefined, port |-> JsUndefined, command |-> JsUndefined]

JsonNoObject == [ok |-> FALSE, value |-> NoProperties]

\* JSON.parse reading the members of an object from the opening quote of a
\* key; the text ends with the closing brace
RECURSIVE JsonReadMembers(_, _, _)
JsonReadMembers(cs, i, obj) ==
    IF i > Len(cs) \/ cs[i] # "\"" THEN JsonNoObject
    ELSE LET k == JsonReadString(cs, i + 1, <<>>) IN
         IF ~k.ok \/ k.next > Len(cs) \/ cs[k.next] # ":" THEN JsonNoObject
         ELSE LET v == JsonReadValue(cs, k.next + 1)
                  key == FromChars(k.chars)
              IN IF ~v.ok \/ v.next > Len(cs) THEN JsonNoObject
                 ELSE IF cs[v.next] = ","
                 THEN JsonReadMembers(cs, v.next + 1,
                                      IF key \in DOMAIN obj
                                      THEN [obj EXCEPT ![key] = v.value] ELSE obj)
                 ELSE IF cs[v.next] = "}" /\ v.next = Len(cs)
                 THEN [ok |-> TRUE,
                       value |-> IF key \in DOMAIN obj
                                 THEN [obj EXCEPT ![key] = v.value] ELSE obj]
                 ELSE JsonNoObject

\* JSON.parse(json) of an object text; not ok is a SyntaxError
JsonParse(cs) ==
    IF Len(cs) < 2 \/ cs[1] # "{" THEN JsonNoObject
    ELSE IF cs[2] = "}" /\ Len(cs) = 2 THEN [ok |-> TRUE, value |-> NoProperties]
    ELSE JsonReadMembers(cs, 2, NoProperties)

\* Process.fromJSON(json)
FromJSON(json) ==
    LET parsed == JsonParse(json)
    IN IF parsed.ok THEN FromObject(parsed.value)
       ELSE [threw |-> TRUE, value |-> parsed.value]

\* a Process that was built, and what one of the from-functions rebuilt of what
\* one of the to-functions wrote
RoundTrip(p, q) == [threw |-> p.threw, value |-> p.value, back |-> q]

\* the options of the processes that are written and rebuilt
RoundTripInputs ==
    [pid : {JsInteger(12), JsInteger(1), JsInteger(0)},
     name : {JsString("node"), JsString("a\"b"), JsString("c\\d")},
     user : {JsString("dev"), JsString("")},
     protocol : {JsString("TCP"), JsString("UDP")},
     port : {JsInteger(30), JsInteger(MaxPort)},
     command : {JsUndefined, JsString("node server.js"), JsString(""),
                JsString("a\"b")}]

(***************************************************************************)
(* PortManager (src/src/core/port-manager.ts).  The platform detector and  *)
(* the adapter are its environment: getPlatformAdapter returns an adapter  *)
(* class or throws, isCompatible resolves true or false or rejects, and an *)
(* adapter method resolves with a value or rejects with any error.  The    *)
(* message of an error is a text; KeywordsIn lists the keywords it holds.  *)
(***************************************************************************)
\* most PortManager operations called in one behaviour
MaxCalls == 3

\* what an initialization attempt meets
InitEnvs == {"compatible", "incompatible", "rejects", "unsupported"}

\* messages of the errors an adapter method rejects with
ManagerMessages ==
    {"boom", "network down", "connection refused", "timeout exceeded", "host unreachable"}

\* the keywords String.includes finds in a message
KeywordsIn(message) ==
    CASE message = "network down" -> {"network"}
      [] message = "connection refused" -> {"connection"}
      [] message = "timeout exceeded" -> {"timeout"}
      [] message = "host unreachable" -> {"unreachable"}
      [] OTHER -> {}

\* error instanceof SystemError || ... ValidationError || ... PermissionError
\* || ... NetworkError
IsKnownError(e) ==
    e.kind \in {"SystemError", "ValidationError", "PermissionError", "NetworkError"}

\* the errors an adapter method may reject with
AdapterErrors ==
    {SystemError("Command failed", "lsof -i", "1"),
     SystemError("network down", "lsof -i", "1"),
     ValidationError("Invalid port"),
     PermissionError("Permission denied", <<12>>),
     NetworkError("timeout exceeded", 30, "findProcessByPort")}
    \cup {RawError("undefined", m) : m \in ManagerMessages}

\* a Process an adapter may report
SomeProcess(pid) ==
    [pid |-> pid, name |-> "node", user |-> "dev", protocol |-> "TCP", port |-> 30,
     command |-> "node"]

\* what an adapter method may resolve with
AdapterValues(method) ==
    CASE method = "findProcessByPort" ->
            {<<>>, <<SomeProcess(12)>>, <<SomeProcess(12), SomeProcess(34)>>}
      [] method = "killProcess" -> {TRUE, FALSE}
      [] method = "getProcessDetails" ->
            {[pid |-> 12, user |-> "dev", name |-> "node", command |-> "node server.js"]}

\* what a call of an adapter method does
AdapterOutcomes(method) ==
    {[threw |-> FALSE, value |-> v, err |-> NoError] : v \in AdapterValues(method)}
    \cup {[threw |-> TRUE, value |-> <<>>, err |-> e] : e \in AdapterErrors}

\* the outcome of a PortManager operation
MReturn(v) == [status |-> "return", value |-> v, err |-> NoError]
MThrow(e) == [status |-> "throw", value |-> <<>>, err |-> e]
MNone == [status |-> "none", value |-> <<>>, err |-> NoError]

\* no operation has been called
NoCall ==
    [op |-> "none", arg |-> JsUndefined, wasInitialized |-> FALSE,
     validation |-> Valid(0), selected |-> FALSE, constructed |-> FALSE,
     compatCalled |-> FALSE, compat |-> "none", delegated |-> FALSE, passed |-> 0,
     adapterOut |-> [threw |-> FALSE, value |-> <<>>, err |-> NoError],
     checked |-> MNone, result |-> MNone]

ManagerIdle ==
    /\ adapter = "null"
    /\ initialized = FALSE
    /\ mcalls = 0
    /\ mlast = NoCall

\* no function is under check
FunctionPending == [done |-> FALSE, out |-> Valid(0)]
FunctionIdle ==
    /\ vfun = "none"
    /\ vin = JsUndefined
    /\ vout = FunctionPending

\* no port command runs
CliIdle ==
    /\ cliSource = "none"
    /\ copts = [yes |-> FALSE, verbose |-> FALSE, port |-> FALSE]
    /\ cenv = [PORTKILL_LOG_LEVEL |-> "unset", LOG_LEVEL |-> "unset"]
    /\ clevels = [CLI |-> 0, PortManager |-> 0]
    /\ cpc = "off"
    /\ cprocs = <<>>
    /\ ci = 0
    /\ crounds = 0
    /\ ctrace = <<>>

\* no operations overlap
NoTask == [pc |-> "off", op |-> "none", used |-> "none"]
OverlapIdle ==
    /\ tasks = <<NoTask, NoTask>>
    /\ initSteps = [selected |-> 0, constructed |-> 0, compatChecked |-> 0]
    /\ overlapped = FALSE

(***************************************************************************)
(* getProcessDetails.  The detail command resolves with one row (its       *)
(* tokens: ps columns, or tasklist's CSV fields; <<>> is empty output) or  *)
(* rejects.                                                                *)
(***************************************************************************)
DetailRows(plat) ==
    IF plat = "unix"
    THEN {<<>>, <<"12", "dev">>, <<"12", "dev", "node", "node">>,
          <<"12", "dev", "node", "/usr/bin/node", "server.js">>}
    ELSE {<<>>, <<"INFO: No tasks are running">>,
          <<"node.exe", "12", "Console", "1", "25,000 K">>,
          <<"svchost.exe", "12", "Services", "0", "15,000 K">>}

\* the access-denied text of the platform's lookup tools
AccessDeniedText(plat) == IF plat = "unix" THEN "Permission denied" ELSE "Access is denied"

DetailExecOutcomes(plat) ==
    {[ok |-> TRUE, code |-> "undefined", stderr |-> {}, row |-> r] : r \in DetailRows(plat)}
    \cup {[ok |-> FALSE, code |-> c, stderr |-> s, row |-> <<>>] :
            c \in ExitCodes, s \in SUBSET {AccessDeniedText(plat)}}

NoDetails == [pid |-> 0, user |-> "", name |-> "", command |-> ""]

\* parts.slice(3).join(' ')
RECURSIVE JoinFrom(_, _)
JoinFrom(parts, i) ==
    IF i > Len(parts) THEN <<>> ELSE <<parts[i]>> \o JoinFrom(parts, i + 1)

\* UnixAdapter.getProcessDetails, given what `ps -p pid -o ...` did
UnixGetProcessDetails(p, o) ==
    IF o.ok
    THEN IF o.row = <<>>
         THEN [threw |-> TRUE, value |-> NoDetails,
               err |-> SystemError("Process with PID not found", "ps -p -o", "1")]
         ELSE IF Len(o.row) < 4
         THEN [threw |-> TRUE, value |-> NoDetails,
               err |-> SystemError("Invalid ps output format", "ps -p -o", "undefined")]
         ELSE [threw |-> FALSE, err |-> NoError,
               value |-> [pid |-> ParseInt(o.row[1]).val, user |-> o.row[2],
                          name |-> o.row[3],
                          command |-> LET args == JoinFrom(o.row, 4) IN
                                      IF args # <<>> THEN args ELSE <<o.row[3]>>]]
    ELSE IF o.code = "1"
         THEN [threw |-> TRUE, value |-> NoDetails,
               err |-> SystemError("Process with PID not found", "ps -p", o.code)]
         ELSE [threw |-> TRUE, value |-> NoDetails,
               err |-> SystemError("Failed to get process details", "ps -p", o.code)]

\* line.match(/"([^"]+)","([^"]+)","([^"]+)","([^"]+)","([^"]+)"/)
CsvMatch(row) == Len(row) >= 5 /\ \A i \in 1..5 : row[i] # ""

\* WindowsAdapter.getProcessDetails, given what `tasklist /FI "PID eq pid"` did
WindowsGetProcessDetails(p, o) ==
    IF o.ok
    THEN IF o.row = <<>>
         THEN [threw |-> TRUE, value |-> NoDetails,
               err |-> SystemError("Process with PID not found", "tasklist /FO CSV", "1")]
         ELSE IF ~CsvMatch(o.row)
         THEN [threw |-> TRUE, value |-> NoDetails,
               err |-> SystemError("Invalid tasklist output format", "tasklist /FO CSV",
                                   "undefined")]
         ELSE [threw |-> FALSE, err |-> NoError,
               value |-> [pid |-> ParseInt(o.row[2]).val,
                          user |-> IF o.row[3] = "Services" THEN "SYSTEM" ELSE o.row[3],
                          name |-> o.row[1], command |-> o.row[1]]]
    ELSE IF o.code = "1"
         THEN [threw |-> TRUE, value |-> NoDetails,
               err |-> SystemError("Process with PID not found", "tasklist", o.code)]
         ELSE [threw |-> TRUE, value |-> NoDetails,
               err |-> SystemError("Failed to get process details", "tasklist", o.code)]

\* getProcessDetails of the adapter in use
GetProcessDetailsOf(plat, p, o) ==
    IF plat = "unix" THEN UnixGetProcessDetails(p, o) ELSE WindowsGetProcessDetails(p, o)

(***************************************************************************)
(* findProcessByPort: the parsers.  A line of the discovery output is the  *)
(* sequence of its tokens, line.trim().split(/\s+/).                       *)
(***************************************************************************)
\* the port the lookups are made for
FindPorts == {30}

\* pids that occur in discovery outputs
ScanPids == {12, 34}

\* an lsof line: COMMAND PID USER FD TYPE DEVICE SIZE/OFF NODE NAME [(STATE)]
LsofLine(name, pidTok, type, node, tail) ==
    <<name, pidTok, "dev", "20u", type, "12345", "0t0", node>> \o tail

LsofHeader ==
    <<"COMMAND", "PID", "USER", "FD", "TYPE", "DEVICE", "SIZE/OFF", "NODE", "NAME">>

\* the data lines lsof outputs are built from
LsofLines ==
    { LsofLine("node", "12", "IPv4", "TCP", <<"*:30", "(LISTEN)">>),
      LsofLine("node", "12", "IPv4", "TCP", <<"127.0.0.1:30->127.0.0.1:54321", "(ESTABLISHED)">>),
      LsofLine("node", "12", "IPv4", "TCP", <<"127.0.0.1:30->127.0.0.1:54322", "(CLOSE_WAIT)">>),
      LsofLine("nginx", "34", "IPv6", "TCP", <<"*:30", "(LISTEN)">>),
      LsofLine("nginx", "34", "IPv4", "TCP", <<"127.0.0.1:30->127.0.0.1:54322", "(CLOSE_WAIT)">>),
      LsofLine("dns", "34", "IPv4", "UDP", <<"*:30">>),
      LsofLine("dns", "12", "IPv6", "UDP", <<"*:30">>),
      LsofLine("dns", "34", "sock", "UDP", <<"*:30">>),
      LsofLine("node", "ab", "IPv4", "TCP", <<"*:30", "(LISTEN)">>),
      LsofLine("node", "0", "IPv4", "TCP", <<"*:30", "(LISTEN)">>),
      <<"invalid", "line", "with", "not", "enough", "parts">> }

\* the lines netstat outputs are built from: Proto Local Foreign [State] PID
NetstatLines ==
    { <<"TCP", "0.0.0.0:30", "0.0.0.0:0", "LISTENING", "12">>,
      <<"TCP", "[::]:30", "[::]:0", "ESTABLISHED", "12">>,
      <<"TCP", "0.0.0.0:30", "0.0.0.0:0", "TIME_WAIT", "34">>,
      <<"TCP", "0.0.0.0:30", "0.0.0.0:0", "LISTENING", "34">>,
      <<"UDP", "0.0.0.0:30", "*:*", "34">>,
      <<"TCP", "0.0.0.0:300", "0.0.0.0:0", "LISTENING", "12">>,
      <<"TCP", "0.0.0.0:30", "0.0.0.0:0", "LISTENING", "ab">>,
      <<"tcp", "0.0.0.0:30", "0.0.0.0:0", "LISTENING", "0">>,
      <<"invalid", "line", "here">> }

\* String.toUpperCase on the protocol column
ToUpperCase(tok) ==
    CASE tok = "tcp" -> "TCP"
      [] tok = "udp" -> "UDP"
      [] tok = "debug" -> "DEBUG"
      [] OTHER -> tok

\* parts.slice(8).join(' ').includes(marker): the markers hold no blank, and
\* no token of LsofLines holds one as a proper part
ConnectionInfoIncludes(parts, marker) ==
    \E j \in 9..Len(parts) : parts[j] = marker

\* the protocol the Unix scan gives a line (parts[4] is TYPE, parts[7] is NODE)
UnixProtocol(parts) ==
    IF parts[5] = "IPv4" \/ parts[5] = "IPv6" THEN "TCP"
    ELSE IF parts[8] = "UDP" THEN "UDP"
    ELSE "TCP"

\* the Unix scan's relevance filter
UnixIsRelevant(parts) ==
    \/ ConnectionInfoIncludes(parts, "(LISTEN)")
    \/ ConnectionInfoIncludes(parts, "(ESTABLISHED)")
    \/ UnixProtocol(parts) = "UDP"

Scan(processes, seen) == [processes |-> processes, seen |-> seen]

UnixScanLineMarkingEarly(port, parts, acc) ==
    IF Len(parts) = 0 \/ Len(parts) < 9 THEN acc
    ELSE LET pid == ParseInt(parts[2]) IN
         IF pid.nan \/ pid.val <= 0 THEN acc
         ELSE IF pid.val \in acc.seen THEN acc
         ELSE IF ~UnixIsRelevant(parts) THEN Scan(acc.processes, acc.seen \cup {pid.val})
         ELSE Scan(Append(acc.processes,
                          [pid |-> pid.val, name |-> parts[1], user |-> parts[3],
                           protocol |-> UnixProtocol(parts), port |-> port,
                           command |-> parts[1]]),
                   acc.seen \cup {pid.val})

\* one pass of the Unix loop body over a line; acc holds `processes` and the
\* keys of `processMap`
UnixScanLine(port, parts, acc) ==
    IF Len(parts) = 0 \/ Len(parts) < 9 THEN acc
    ELSE LET pid == ParseInt(parts[2]) IN
         IF pid.nan \/ pid.val <= 0 THEN acc
         ELSE IF pid.val \in acc.seen THEN acc
         ELSE IF ~UnixIsRelevant(parts) THEN acc
         ELSE LET made == NewProcess([pid |-> pid.val,
                                      name |-> OrElse(parts[1], "Unknown"),
                                      user |-> OrElse(parts[3], "Unknown"),
                                      protocol |-> UnixProtocol(parts),
                                      port |-> port,
                                      command |-> OrElse(parts[1], "Unknown")])
              IN IF made.threw THEN acc
                 ELSE Scan(Append(acc.processes, made.value), acc.seen \cup {pid.val})

\* the Unix loop: lines[0] is skipped as the header
RECURSIVE UnixScan(_, _, _, _)
UnixScan(port, lines, i, acc) ==
    IF i > Len(lines) THEN acc.processes
    ELSE UnixScan(port, lines, i + 1, UnixScanLine(port, lines[i], acc))

\* a scan that gives a pid up when its detail lookup fails
WindowsProcessForDropping(pid, protocol, port, details) ==
    IF details.threw
    THEN [threw |-> TRUE,
          value |-> [pid |-> pid, name |-> "Unknown", user |-> "Unknown",
                     protocol |-> protocol, port |-> port, command |-> "Unknown"]]
    ELSE NewProcess([pid |-> pid,
                     name |-> OrElse(details.value.name, "Unknown"),
                     user |-> OrElse(details.value.user, "Unknown"),
                     protocol |-> protocol,
                     port |-> port,
                     command |-> OrElse(details.value.command,
                                        OrElse(details.value.name, "Unknown"))])

\* the Process the Windows scan makes for a pid: from its details, or the
\* "Unknown" record when the detail lookup fails
WindowsProcessFor(pid, protocol, port, details) ==
    LET basic == NewProcess([pid |-> pid, name |-> "Unknown", user |-> "Unknown",
                             protocol |-> protocol, port |-> port, command |-> "Unknown"])
    IN IF details.threw THEN basic
       ELSE LET full == NewProcess([pid |-> pid,
                                    name |-> OrElse(details.value.name, "Unknown"),
                                    user |-> OrElse(details.value.user, "Unknown"),
                                    protocol |-> protocol,
                                    port |-> port,
                                    command |-> OrElse(details.value.command,
                                                       OrElse(details.value.name, "Unknown"))])
            IN IF full.threw THEN basic ELSE full

\* one pass of the Windows loop body; tasklist[pid] is what the detail command
\* does for that pid; acc holds `processes` and `pidSet`
WindowsScanLine(port, parts, tasklist, acc) ==
    IF Len(parts) = 0 \/ Len(parts) < 4 THEN acc
    ELSE LET protocol == ToUpperCase(parts[1]) IN
         IF ~PortPatternTest(port, parts[2]) THEN acc
         ELSE IF protocol \notin {"TCP", "UDP"} THEN acc
         ELSE IF protocol = "TCP" /\ Len(parts) < 5 THEN acc
         ELSE IF protocol = "TCP" /\ parts[4] # "LISTENING" /\ parts[4] # "ESTABLISHED" THEN acc
         ELSE LET pid == ParseInt(IF protocol = "TCP" THEN parts[5] ELSE parts[4]) IN
              IF pid.nan \/ pid.val <= 0 \/ pid.val \in acc.seen THEN acc
              ELSE LET details == WindowsGetProcessDetails(pid.val, tasklist[pid.val])
                       made == WindowsProcessFor(pid.val, protocol, port, details)
                   IN IF made.threw THEN Scan(acc.processes, acc.seen \cup {pid.val})
                      ELSE Scan(Append(acc.processes, made.value), acc.seen \cup {pid.val})

\* the Windows loop, over every line
RECURSIVE WindowsScan(_, _, _, _, _)
WindowsScan(port, lines, tasklist, i, acc) ==
    IF i > Len(lines) THEN acc.processes
    ELSE WindowsScan(port, lines, tasklist, i + 1,
                     WindowsScanLine(port, lines[i], tasklist, acc))

(***************************************************************************)
(* findProcessByPort: the catch block.  A rejection of the discovery       *)
(* command carries code, stdout ("undefined", "" or some text), and the    *)
(* markers its stderr and its message contain.                             *)
(***************************************************************************)
FindStderrMarkers(plat) ==
    IF plat = "unix"
    THEN {"No such file or directory", "Permission denied", "network", "invalid"}
    ELSE {"Access is denied", "network", "not recognized", "not found", "invalid"}

FindMessages == {{}, {"network"}, {"connection"}, {"timeout"}}

FindStdouts == {"undefined", "", "some output"}

\* the discovery command's line of either adapter
FindCommand(plat) == IF plat = "unix" THEN "lsof -i" ELSE "netstat -ano | findstr"

\* the operation label of a NetworkError
FindOperation(plat) == IF plat = "unix" THEN "lsof lookup" ELSE "netstat lookup"

\* !err.stdout
NoStdout(e) == e.stdout = "undefined" \/ e.stdout = ""

\* the network test of both catch blocks
LooksLikeNetwork(e) ==
    \/ "network" \in e.message
    \/ "connection" \in e.message
    \/ "timeout" \in e.message
    \/ "network" \in e.stderr

FThrow(e) == [status |-> "throw", value |-> <<>>, err |-> e]
FReturn(v) == [status |-> "return", value |-> v, err |-> NoError]
FPending == [status |-> "pending", value |-> <<>>, err |-> NoError]

UnixFindCatchNetworkFirst(port, e) ==
    IF e.code = "1" /\ "No such file or directory" \in e.stderr
    THEN FThrow(SystemError("lsof command not found", FindCommand("unix"), e.code))
    ELSE IF e.code = "1" /\ NoStdout(e) THEN FReturn(<<>>)
    ELSE IF LooksLikeNetwork(e)
    THEN FThrow(NetworkError("Network error while checking port", port, FindOperation("unix")))
    ELSE IF "Permission denied" \in e.stderr
    THEN FThrow(PermissionError("Permission denied when checking port", <<>>))
    ELSE IF "invalid" \in e.stderr
    THEN FThrow(ValidationError("Invalid port number for lsof command"))
    ELSE FThrow(SystemError("Failed to find processes on port", FindCommand("unix"), e.code))

\* the catch block of UnixAdapter.findProcessByPort
UnixFindCatch(port, e) ==
    IF e.code = "1" /\ "No such file or directory" \in e.stderr
    THEN FThrow(SystemError("lsof command not found", FindCommand("unix"), e.code))
    ELSE IF e.code = "1" /\ NoStdout(e) THEN FReturn(<<>>)
    ELSE IF "Permission denied" \in e.stderr
    THEN FThrow(PermissionError("Permission denied when checking port", <<>>))
    ELSE IF LooksLikeNetwork(e)
    THEN FThrow(NetworkError("Network error while checking port", port, FindOperation("unix")))
    ELSE IF "invalid" \in e.stderr
    THEN FThrow(ValidationError("Invalid port number for lsof command"))
    ELSE FThrow(SystemError("Failed to find processes on port", FindCommand("unix"), e.code))

WindowsFindCatchAnyStdout(port, e) ==
    IF e.code = "1" THEN FReturn(<<>>)
    ELSE IF "Access is denied" \in e.stderr
    THEN FThrow(PermissionError("Permission denied when checking port", <<>>))
    ELSE IF LooksLikeNetwork(e)
    THEN FThrow(NetworkError("Network error while checking port", port, FindOperation("windows")))
    ELSE IF "not recognized" \in e.stderr \/ "not found" \in e.stderr
    THEN FThrow(SystemError("Required system command not found", FindCommand("windows"), e.code))
    ELSE IF "invalid" \in e.stderr
    THEN FThrow(ValidationError("Invalid port number for netstat command"))
    ELSE FThrow(SystemError("Failed to find processes on port", FindCommand("windows"), e.code))

\* the catch block of WindowsAdapter.findProcessByPort
WindowsFindCatch(port, e) ==
    IF e.code = "1" /\ NoStdout(e) THEN FReturn(<<>>)
    ELSE IF "Access is denied" \in e.stderr
    THEN FThrow(PermissionError("Permission denied when checking port", <<>>))
    ELSE IF LooksLikeNetwork(e)
    THEN FThrow(NetworkError("Network error while checking port", port, FindOperation("windows")))
    ELSE IF "not recognized" \in e.stderr \/ "not found" \in e.stderr
    THEN FThrow(SystemError("Required system command not found", FindCommand("windows"), e.code))
    ELSE IF "invalid" \in e.stderr
    THEN FThrow(ValidationError("Invalid port number for netstat command"))
    ELSE FThrow(SystemError("Failed to find processes on port", FindCommand("windows"), e.code))

\* findProcessByPort of the adapter in use, given what the discovery command
\* did and what the detail command does per pid
FindProcessByPortOf(plat, port, o, tasklist) ==
    IF o.ok
    THEN IF o.lines = <<>> THEN FReturn(<<>>)
         ELSE IF plat = "unix"
         THEN FReturn(UnixScan(port, o.lines, 2, Scan(<<>>, {})))
         ELSE FReturn(WindowsScan(port, o.lines, tasklist, 1, Scan(<<>>, {})))
    ELSE IF plat = "unix" THEN UnixFindCatch(port, o)
    ELSE WindowsFindCatch(port, o)

(***************************************************************************)
(* The lookup operations as actions.                                       *)
(***************************************************************************)
\* sequences of at most n elements of S
SeqsUpTo(S, n) == UNION {[1..k -> S] : k \in 0..n}

\* stdout of the discovery command: nothing, or (Unix) the header and up to
\* MaxLines data lines, or (Windows) up to MaxLines lines
DiscoveryOutputs(plat) ==
    IF plat = "unix"
    THEN {<<>>} \cup {<<LsofHeader>> \o ls : ls \in SeqsUpTo(LsofLines, MaxLines)}
    ELSE SeqsUpTo(NetstatLines, MaxLines)

\* what the discovery command can do
DiscoveryExecOutcomes(plat) ==
    {[ok |-> TRUE, code |-> "undefined", stdout |-> "", stderr |-> {}, message |-> {},
      lines |-> ls] : ls \in DiscoveryOutputs(plat)}
    \cup {[ok |-> FALSE, code |-> c, stdout |-> out, stderr |-> s, message |-> m,
           lines |-> <<>>] :
            c \in ExitCodes, out \in FindStdouts,
            s \in SUBSET FindStderrMarkers(plat), m \in FindMessages}

\* what tasklist does for a pid met during the Windows scan
ScanDetailOutcomes ==
    {[ok |-> TRUE, code |-> "undefined", stderr |-> {},
      row |-> <<"node.exe", "12", "Console", "1", "25,000 K">>],
     [ok |-> TRUE, code |-> "undefined", stderr |-> {}, row |-> <<>>],
     [ok |-> FALSE, code |-> "undefined", stderr |-> {"Access is denied"}, row |-> <<>>]}

\* the detail command's behaviour per pid; the Unix scan makes no detail lookup
TasklistEnvs(plat) ==
    IF plat = "unix" THEN {[p \in ScanPids |-> CHOOSE o \in ScanDetailOutcomes : o.ok /\ o.row # <<>>]}
    ELSE [ScanPids -> ScanDetailOutcomes]

\* findProcessByPort(port), the whole call
FindProcessByPort ==
    /\ fpc = "find"
    /\ fresult' = FindProcessByPortOf(platform, fport, fexec, ftasklist)
    /\ fpc' = "done"
    /\ UNCHANGED <<platform, killVars, fport, fexec, ftasklist, dpid, dexec, dresult,
                   managerVars, functionVars, cliVars, overlapVars>>

DPending == [threw |-> FALSE, value |-> NoDetails, err |-> NoError]

\* getProcessDetails(pid), the whole call
GetProcessDetails ==
    /\ fpc = "details"
    /\ dresult' = GetProcessDetailsOf(platform, dpid, dexec)
    /\ fpc' = "done"
    /\ UNCHANGED <<platform, killVars, fport, fexec, ftasklist, fresult, dpid, dexec,
                   managerVars, functionVars, cliVars, overlapVars>>

KillIdle ==
    /\ kpc = "off"
    /\ kpid = 0
    /\ klog = <<>>
    /\ kresult = Pending

FindInit ==
    /\ platform \in Platforms
    /\ KillIdle
    /\ \/ /\ fpc = "find"
          /\ fport \in FindPorts
          /\ fexec \in DiscoveryExecOutcomes(platform)
          /\ ftasklist \in TasklistEnvs(platform)
          /\ dpid = 0
          /\ dexec = [ok |-> TRUE]
       \/ /\ fpc = "details"
          /\ fport = 0
          /\ fexec = [ok |-> TRUE, lines |-> <<>>]
          /\ ftasklist = <<>>
          /\ dpid \in TargetPids
          /\ dexec \in DetailExecOutcomes(platform)
    /\ fresult = FPending
    /\ dresult = DPending
    /\ ManagerIdle
    /\ FunctionIdle
    /\ CliIdle
    /\ OverlapIdle

FindNext ==
    \/ FindProcessByPort
    \/ GetProcessDetails

\* the adapters' lookups against every behaviour of the commands they run
SpecFind == FindInit /\ [][FindNext]_vars

(***************************************************************************)
(* killProcess as a specification of its own.                              *)
(***************************************************************************)
LookupIdle ==
    /\ fpc = "off"
    /\ fport = 0
    /\ fexec = [ok |-> TRUE, lines |-> <<>>]
    /\ ftasklist = <<>>
    /\ fresult = FPending
    /\ dpid = 0
    /\ dexec = [ok |-> TRUE]
    /\ dresult = DPending

KillInit ==
    /\ platform \in Platforms
    /\ kpc = "idle"
    /\ kpid = 0
    /\ klog = <<>>
    /\ kresult = Pending
    /\ LookupIdle
    /\ ManagerIdle
    /\ FunctionIdle
    /\ CliIdle
    /\ OverlapIdle

KillNext ==
    \/ KillProcessCall
    \/ KillGraceful
    \/ KillPoll1
    \/ KillForced
    \/ KillPoll2

\* the adapter's killProcess against every behaviour of the commands it runs
SpecKill == KillInit /\ [][KillNext]_vars

\* the same, with every external command returning: a killProcess that can take
\* its next step takes it
SpecKillFair == SpecKill /\ WF_vars(KillNext)

(***************************************************************************)
(* PortManager: initialize and the four public operations.  An operation   *)
(* is one step: it runs to its end before the next one is called.          *)
(***************************************************************************)
\* new SystemError(message): command and exitCode take their default, null
PlainSystemError(message) == SystemError(message, "null", "undefined")

\* how initialize() ends and what it did on the way
\* (compat is what isCompatible() did: "true", "false", "rejected", or "none"
\* when it was not called)
InitResult(adp, init, e, selected, constructed, compat) ==
    [adapter |-> adp, initialized |-> init, threw |-> e # NoError, err |-> e,
     selected |-> selected, constructed |-> constructed,
     compatCalled |-> compat # "none", compat |-> compat]

\* an initialize() that selects an adapter on every call
InitializeAlways(adp, init, env) ==
    CASE env = "unsupported" ->
            InitResult(adp, init, PlainSystemError("Failed to initialize port manager"),
                       TRUE, FALSE, "none")
      [] env = "incompatible" ->
            InitResult("adapter", init,
                       PlainSystemError("Platform adapter is not compatible with current system"),
                       TRUE, TRUE, "false")
      [] env = "rejects" ->
            InitResult("adapter", init, PlainSystemError("Failed to initialize port manager"),
                       TRUE, TRUE, "rejected")
      [] OTHER -> InitResult("adapter", TRUE, NoError, TRUE, TRUE, "true")

\* PortManager.initialize(), given what the platform detector and the
\* adapter's isCompatible do
InitializeOf(adp, init, env) ==
    IF init THEN InitResult(adp, init, NoError, FALSE, FALSE, "none")
    ELSE CASE env = "unsupported" ->
                 InitResult(adp, init, PlainSystemError("Failed to initialize port manager"),
                            TRUE, FALSE, "none")
           [] env = "incompatible" ->
                 InitResult("adapter", init,
                            PlainSystemError("Platform adapter is not compatible with current system"),
                            TRUE, TRUE, "false")
           [] env = "rejects" ->
                 InitResult("adapter", init,
                            PlainSystemError("Failed to initialize port manager"),
                            TRUE, TRUE, "rejected")
           [] OTHER -> InitResult("adapter", TRUE, NoError, TRUE, TRUE, "true")

\* an operation that goes on without initializing
EnsureInitializedSkipped(adp, init, env) ==
    InitResult(adp, init, NoError, FALSE, FALSE, "none")

\* `await this.initialize()` inside an operation
EnsureInitialized(adp, init, env) == InitializeOf(adp, init, env)

\* the network test of checkPort's catch block
MessageLooksLikeNetwork(message) ==
    KeywordsIn(message) \cap {"network", "connection", "timeout", "unreachable"} # {}

\* a checkPort catch block that wraps whatever it catches
ManagerCheckPortCatchWrapsAll(validPort, e) ==
    IF MessageLooksLikeNetwork(e.message)
    THEN NetworkError("Network error while checking port", validPort, "port check")
    ELSE PlainSystemError("Failed to check port")

\* the catch block of PortManager.checkPort
ManagerCheckPortCatch(validPort, e) ==
    IF IsKnownError(e) THEN e
    ELSE IF MessageLooksLikeNetwork(e.message)
    THEN NetworkError("Network error while checking port", validPort, "port check")
    ELSE PlainSystemError("Failed to check port")

\* a killProcess catch block with checkPort's network test
ManagerKillProcessCatchReclassifying(validPid, e) ==
    IF IsKnownError(e) THEN e
    ELSE IF MessageLooksLikeNetwork(e.message)
    THEN NetworkError("Network error while killing process", validPid, "port check")
    ELSE PlainSystemError("Failed to kill process")

\* the catch block of PortManager.killProcess
ManagerKillProcessCatch(validPid, e) ==
    IF IsKnownError(e) THEN e
    ELSE PlainSystemError("Failed to kill process")

\* the catch block of PortManager.getProcessDetails
ManagerGetProcessDetailsCatch(validPid, e) ==
    IF IsKnownError(e) THEN e
    ELSE PlainSystemError("Failed to get process details")

\* the catch block of an operation
ManagerCatch(op, arg, e) ==
    CASE op = "checkPort" -> ManagerCheckPortCatch(arg, e)
      [] op = "killProcess" -> ManagerKillProcessCatch(arg, e)
      [] op = "getProcessDetails" -> ManagerGetProcessDetailsCatch(arg, e)

\* an operation that takes its argument as it comes
ManagerValidateNothing(op, arg) == Valid(arg.num)

\* the validator of an operation's argument
ManagerValidate(op, arg) ==
    IF op = "checkPort" THEN ValidatePort(arg) ELSE ValidatePid(arg)

\* the adapter method an operation delegates to
AdapterMethod(op) ==
    CASE op = "checkPort" -> "findProcessByPort"
      [] op = "isPortAvailable" -> "findProcessByPort"
      [] op = "killProcess" -> "killProcess"
      [] op = "getProcessDetails" -> "getProcessDetails"
      [] OTHER -> "none"

\* checkPort, killProcess and getProcessDetails share one shape: validate,
\* initialize, test the adapter, delegate, classify a failure.  Given the
\* validator's outcome v, the outcome i of `await this.initialize()` and the
\* outcome out of the adapter method, the result is the manager's fields after
\* the call and the record of the call.
ManagerOperation(op, adp, init, arg, v, i, out) ==
    LET call == [NoCall EXCEPT !.op = op, !.arg = arg, !.wasInitialized = init,
                               !.validation = v]
        ran == [call EXCEPT !.selected = i.selected,
                            !.constructed = i.constructed,
                            !.compatCalled = i.compatCalled,
                            !.compat = i.compat]
    IN IF v.threw
       THEN [adapter |-> adp, initialized |-> init,
             call |-> [call EXCEPT !.result = MThrow(v.err)]]
       ELSE IF i.threw
       THEN [adapter |-> i.adapter, initialized |-> i.initialized,
             call |-> [ran EXCEPT !.result = MThrow(i.err)]]
       ELSE IF i.adapter = "null"
       THEN [adapter |-> i.adapter, initialized |-> i.initialized,
             call |-> [ran EXCEPT !.result =
                          MThrow(PlainSystemError("Port manager adapter not initialized"))]]
       ELSE [adapter |-> i.adapter, initialized |-> i.initialized,
             call |-> [ran EXCEPT !.delegated = TRUE,
                                  !.passed = v.value,
                                  !.adapterOut = out,
                                  !.result = IF out.threw
                                             THEN MThrow(ManagerCatch(op, v.value, out.err))
                                             ELSE MReturn(out.value)]]

\* an isPortAvailable that answers for an occupied port
PortIsOccupied(processes) == Len(processes) # 0

\* processes.length === 0
PortIsFree(processes) == Len(processes) = 0

\* PortManager.isPortAvailable, given how its checkPort went: the length of
\* the list; a failure of checkPort is the failure of isPortAvailable
IsPortAvailableOf(c) ==
    [c EXCEPT !.call.op = "isPortAvailable",
              !.call.checked = c.call.result,
              !.call.result = IF c.call.result.status = "return"
                              THEN MReturn(PortIsFree(c.call.result.value))
                              ELSE c.call.result]

\* PortManager.getAdapter() and PortManager.isInitialized()
GetAdapter == adapter
IsInitialized == initialized

\* arguments the operations are called with
ManagerPortArgs == {JsInteger(30), JsString("30"), JsInteger(0), JsString("ab")}
ManagerPidArgs == {JsInteger(12), JsString("12"), JsInteger(0), JsNull}

\* the manager's fields and the call record after an operation
ManagerStep(r) ==
    /\ adapter' = r.adapter
    /\ initialized' = r.initialized
    /\ mlast' = r.call
    /\ mcalls' = mcalls + 1
    /\ UNCHANGED <<platform, killVars, lookupVars, functionVars, cliVars, overlapVars>>

\* initialize() is called
PortManagerInitialize ==
    /\ mcalls < MaxCalls
    /\ \E env \in (IF initialized THEN {"compatible"} ELSE InitEnvs) :
       \E i \in {InitializeOf(adapter, initialized, env)} :
          ManagerStep([adapter |-> i.adapter, initialized |-> i.initialized,
                       call |-> [NoCall EXCEPT !.op = "initialize",
                                               !.wasInitialized = initialized,
                                               !.selected = i.selected,
                                               !.constructed = i.constructed,
                                               !.compatCalled = i.compatCalled,
                                               !.compat = i.compat,
                                               !.result = IF i.threw THEN MThrow(i.err)
                                                          ELSE MReturn(<<>>)]])

\* the environment an operation gets to consult: the platform detector and
\* isCompatible only when it initializes, the adapter method only when it
\* delegates
EnvsConsulted(v) == IF initialized \/ v.threw THEN {"compatible"} ELSE InitEnvs
OutcomesConsulted(op, v, i) ==
    IF v.threw \/ i.threw \/ i.adapter = "null"
    THEN {NoCall.adapterOut}
    ELSE AdapterOutcomes(AdapterMethod(op))

\* one of checkPort(port), killProcess(pid), getProcessDetails(pid)
PortManagerCall(op, args) ==
    \E arg \in args :
       \E v \in {ManagerValidate(op, arg)} :
       \E env \in EnvsConsulted(v) :
       \E i \in {EnsureInitialized(adapter, initialized, env)} :
       \E out \in OutcomesConsulted(op, v, i) :
       \E r \in {ManagerOperation(op, adapter, initialized, arg, v, i, out)} :
          ManagerStep(r)

\* checkPort(port)
PortManagerCheckPort ==
    /\ mcalls < MaxCalls
    /\ PortManagerCall("checkPort", ManagerPortArgs)

\* killProcess(pid)
PortManagerKillProcess ==
    /\ mcalls < MaxCalls
    /\ PortManagerCall("killProcess", ManagerPidArgs)

\* getProcessDetails(pid)
PortManagerGetProcessDetails ==
    /\ mcalls < MaxCalls
    /\ PortManagerCall("getProcessDetails", ManagerPidArgs)

\* isPortAvailable(port)
PortManagerIsPortAvailable ==
    /\ mcalls < MaxCalls
    /\ \E arg \in ManagerPortArgs :
       \E v \in {ValidatePort(arg)} :
       \E env \in EnvsConsulted(v) :
       \E i \in {EnsureInitialized(adapter, initialized, env)} :
       \E out \in OutcomesConsulted("checkPort", v, i) :
       \E c \in {ManagerOperation("checkPort", adapter, initialized, arg, v, i, out)} :
       \E r \in {IsPortAvailableOf(c)} :
          ManagerStep(r)

ManagerInit ==
    /\ platform \in Platforms
    /\ KillIdle
    /\ LookupIdle
    /\ ManagerIdle
    /\ FunctionIdle
    /\ CliIdle
    /\ OverlapIdle

ManagerNext ==
    \/ PortManagerInitialize
    \/ PortManagerCheckPort
    \/ PortManagerKillProcess
    \/ PortManagerGetProcessDetails
    \/ PortManagerIsPortAvailable

\* a PortManager under every sequence of operations, against every behaviour
\* of the platform detector and of the adapter
SpecManager == ManagerInit /\ [][ManagerNext]_vars

(***************************************************************************)
(* Two operations of one PortManager whose executions interleave.  An      *)
(* async function runs until its next await and goes on in a later turn;   *)
(* between two turns of one operation the other operation may run.  An     *)
(* operation awaits inside initialize() after getPlatformAdapter() was     *)
(* called and after isCompatible() was called, then awaits initialize()    *)
(* itself, then the adapter method.  Arguments are valid ones.             *)
(***************************************************************************)
Tasks == {1, 2}
Other(t) == 3 - t

\* the instance `new AdapterClass()` makes in operation t
NewAdapter(t) == IF t = 1 THEN "adapter of 1" ELSE "adapter of 2"

\* initialize() of the operation has begun and has not completed
Initializing(t) == tasks[t].pc \in {"selecting", "checking"}

overlapFrame == <<platform, killVars, lookupVars, mcalls, mlast, functionVars, cliVars>>

\* the operation is called: validation, then initialize() up to its first
\* await; on an initialized manager initialize() returns at once
OverlapBegin(t) ==
    /\ tasks[t].pc = "ready"
    /\ tasks' = [tasks EXCEPT ![t].pc = IF initialized THEN "initialized" ELSE "selecting"]
    /\ initSteps' = IF initialized THEN initSteps
                    ELSE [initSteps EXCEPT !.selected = @ + 1]
    /\ overlapped' = (overlapped \/ Initializing(Other(t)))
    /\ UNCHANGED <<adapter, initialized, overlapFrame>>

\* initialize() after `await getPlatformAdapter()`: the adapter is constructed
\* and stored, and isCompatible() is called
OverlapConstruct(t) ==
    /\ tasks[t].pc = "selecting"
    /\ adapter' = NewAdapter(t)
    /\ initSteps' = [initSteps EXCEPT !.constructed = @ + 1, !.compatChecked = @ + 1]
    /\ tasks' = [tasks EXCEPT ![t].pc = "checking"]
    /\ UNCHANGED <<initialized, overlapped, overlapFrame>>

\* initialize() after `await this.adapter.isCompatible()`
OverlapCompatible(t) ==
    /\ tasks[t].pc = "checking"
    /\ \E isCompatible \in BOOLEAN :
        /\ initialized' = (initialized \/ isCompatible)
        /\ tasks' = [tasks EXCEPT ![t].pc = IF isCompatible THEN "initialized"
                                            ELSE "failed"]
    /\ UNCHANGED <<adapter, initSteps, overlapped, overlapFrame>>

\* the operation after `await this.initialize()`: the test of this.adapter and
\* the call of the adapter method on the instance the field holds now
OverlapDelegate(t) ==
    /\ tasks[t].pc = "initialized"
    /\ tasks' = [tasks EXCEPT ![t].pc = IF adapter = "null" THEN "failed" ELSE "done",
                              ![t].used = IF adapter = "null" THEN "none" ELSE adapter]
    /\ UNCHANGED <<adapter, initialized, initSteps, overlapped, overlapFrame>>

OverlapInit ==
    /\ platform \in Platforms
    /\ KillIdle
    /\ LookupIdle
    /\ ManagerIdle
    /\ FunctionIdle
    /\ CliIdle
    /\ tasks \in [Tasks -> [pc : {"ready"},
                            op : {"checkPort", "killProcess", "getProcessDetails"},
                            used : {"none"}]]
    /\ initSteps = [selected |-> 0, constructed |-> 0, compatChecked |-> 0]
    /\ overlapped = FALSE

OverlapNext ==
    \E t \in Tasks :
        \/ OverlapBegin(t)
        \/ OverlapConstruct(t)
        \/ OverlapCompatible(t)
        \/ OverlapDelegate(t)

\* two operations of one uninitialized PortManager under every interleaving
SpecOverlap == OverlapInit /\ [][OverlapNext]_vars

(***************************************************************************)
(* The validators and the Process constructor, applied to every input.     *)
(***************************************************************************)
FunctionDone(out) == [done |-> TRUE, out |-> out]

ApplyValidatePort ==
    /\ vfun = "validatePort" /\ ~vout.done
    /\ vout' = FunctionDone(ValidatePort(vin))
    /\ UNCHANGED <<platform, killVars, lookupVars, managerVars, vfun, vin, cliVars,
                   overlapVars>>

ApplyValidatePid ==
    /\ vfun = "validatePid" /\ ~vout.done
    /\ vout' = FunctionDone(ValidatePid(vin))
    /\ UNCHANGED <<platform, killVars, lookupVars, managerVars, vfun, vin, cliVars,
                   overlapVars>>

ApplyNewProcess ==
    /\ vfun = "Process" /\ ~vout.done
    /\ vout' = FunctionDone(ConstructProcess(vin))
    /\ UNCHANGED <<platform, killVars, lookupVars, managerVars, vfun, vin, cliVars,
                   overlapVars>>

\* p = new Process(options), then Process.fromObject(p.toObject())
ApplyFromObject ==
    /\ vfun = "fromObject" /\ ~vout.done
    /\ \E p \in {ConstructProcess(vin)} :
       \E q \in (IF p.threw THEN {p} ELSE {FromObject(ToObject(p.value))}) :
          vout' = FunctionDone(RoundTrip(p, q))
    /\ UNCHANGED <<platform, killVars, lookupVars, managerVars, vfun, vin, cliVars,
                   overlapVars>>

\* p = new Process(options), then Process.fromJSON(p.toJSON())
ApplyFromJSON ==
    /\ vfun = "fromJSON" /\ ~vout.done
    /\ \E p \in {ConstructProcess(vin)} :
       \E json \in (IF p.threw THEN {<<>>} ELSE {ToJSON(p.value)}) :
       \E q \in (IF p.threw THEN {p} ELSE {FromJSON(json)}) :
          vout' = FunctionDone(RoundTrip(p, q))
    /\ UNCHANGED <<platform, killVars, lookupVars, managerVars, vfun, vin, cliVars,
                   overlapVars>>

FunctionInit ==
    /\ platform = "unix"
    /\ KillIdle
    /\ LookupIdle
    /\ ManagerIdle
    /\ \/ vfun \in {"validatePort", "validatePid"} /\ vin \in ValidatorInputs
       \/ vfun = "Process" /\ vin \in ProcessOptionInputs
       \/ vfun \in {"fromObject", "fromJSON"} /\ vin \in RoundTripInputs
    /\ vout = FunctionPending
    /\ CliIdle
    /\ OverlapIdle

FunctionNext ==
    \/ ApplyValidatePort
    \/ ApplyValidatePid
    \/ ApplyNewProcess
    \/ ApplyFromObject
    \/ ApplyFromJSON

SpecFunctions == FunctionInit /\ [][FunctionNext]_vars

(***************************************************************************)
(* The Logger (src/src/utils/logger.ts).                                   *)
(***************************************************************************)
\* LOG_LEVELS[name]; -1 stands for undefined
LogLevels(name) ==
    CASE name = "ERROR" -> 0
      [] name = "WARN" -> 1
      [] name = "INFO" -> 2
      [] name = "DEBUG" -> 3
      [] name = "TRACE" -> 4
      [] OTHER -> -1

\* Logger._getLogLevel(), given process.env at the time of the call
GetLogLevel(env) ==
    LET envLevel == IF env.PORTKILL_LOG_LEVEL # "unset" THEN env.PORTKILL_LOG_LEVEL
                    ELSE IF env.LOG_LEVEL # "unset" THEN env.LOG_LEVEL
                    ELSE "INFO"
        level == LogLevels(ToUpperCase(envLevel))
    IN IF level # -1 THEN level ELSE LogLevels("INFO")

\* Logger._shouldLog(level) of a logger whose level field is loggerLevel
ShouldLog(level, loggerLevel) == level <= loggerLevel

(***************************************************************************)
(* The port command of class CLI.  The class has two sources: src/cli.ts,  *)
(* which asks about each of several processes in turn, and the one that    *)
(* follows class PortManager in src/core/port-manager.ts, which shows a    *)
(* process menu.  The port manager and the prompts are the environment:    *)
(* checkPort resolves with a list of processes or rejects, killProcess     *)
(* resolves true or false or rejects, and the user answers every prompt    *)
(* either way.  ctrace records what the command did, in order.             *)
(***************************************************************************)
\* most processes checkPort reports
MaxProcs == 3

\* most rounds of the process menu
MaxRounds == 3

CliSources == {"src/cli.ts", "src/core/port-manager.ts"}

\* process.env when the program starts
CliEnvs ==
    {[PORTKILL_LOG_LEVEL |-> "unset", LOG_LEVEL |-> "unset"],
     [PORTKILL_LOG_LEVEL |-> "DEBUG", LOG_LEVEL |-> "unset"],
     [PORTKILL_LOG_LEVEL |-> "unset", LOG_LEVEL |-> "debug"],
     [PORTKILL_LOG_LEVEL |-> "ERROR", LOG_LEVEL |-> "DEBUG"]}

\* the pids of n processes on one port
CliPids(n) == [k \in 1..n |-> 11 * k + 1]

\* what portManager.checkPort does
CheckPortOutcomes ==
    {[threw |-> TRUE, list |-> <<>>]}
    \cup {[threw |-> FALSE, list |-> CliPids(n)] : n \in 0..MaxProcs}

\* what portManager.killProcess does
KillOutcomes == {"true", "false", "threw"}

\* the entries of ctrace
CalledCheckPort(o) ==
    [ev |-> "checkPort", what |-> "", pid |-> 0, list |-> o.list,
     out |-> IF o.threw THEN "threw" ELSE "returned", emitted |-> TRUE]
CalledKill(pid, out) ==
    [ev |-> "killProcess", what |-> "", pid |-> pid, list |-> <<>>, out |-> out,
     emitted |-> TRUE]
Prompted(kind, pid, list, answer) ==
    [ev |-> "prompt", what |-> kind, pid |-> pid, list |-> list, out |-> answer,
     emitted |-> TRUE]
Printed(text, list) ==
    [ev |-> "print", what |-> text, pid |-> 0, list |-> list, out |-> "",
     emitted |-> TRUE]

\* logger.debug(...) or logger.info(...) of the named logger: the message is
\* written when the level the logger holds allows it
LoggerCall(logger, level) ==
    [ev |-> "log", what |-> level, pid |-> 0, list |-> <<>>, out |-> logger,
     emitted |-> ShouldLog(LogLevels(level), clevels[logger])]

\* the answer of a confirm prompt
Answer(b) == IF b THEN "yes" ELSE "no"

\* a rule that kills whatever the answer
ShouldKillAlways(yes, answer) == TRUE

\* options.yes ?? await this.promptForKill(proc): the flag is true or absent
ShouldKill(yes, answer) == IF yes THEN TRUE ELSE answer

\* how a kill attempt ends for the code around it
Attempt(threw, success) == [threw |-> threw, success |-> success]

\* CLI.killProcessWithFeedback: a rejection is caught and counts as a failure
KillProcessWithFeedback(out) == Attempt(FALSE, out = "true")

\* a loop body without its catch block
AutoKillAttemptRethrowing(out) == Attempt(out = "threw", out = "true")

\* the body of the --yes loop of src/cli.ts: try { killProcess } catch { print }
AutoKillAttempt(out) == Attempt(FALSE, out = "true")

\* the body of the prompting loop of src/cli.ts, when the user said yes
PromptedKillAttempt(out) == Attempt(FALSE, out = "true")

\* processes.splice(index, 1), index counted from 1
Splice(processes, index) ==
    [k \in 1..(Len(processes) - 1) |->
        IF k < index THEN processes[k] ELSE processes[k + 1]]

\* the choices of the process menu
MenuChoices(processes) ==
    {[action |-> "kill", index |-> k] : k \in 1..Len(processes)}
    \cup (IF Len(processes) > 1 THEN {[action |-> "kill_all", index |-> 0]} ELSE {})
    \cup {[action |-> "cancel", index |-> 0]}

cliFrame == <<platform, killVars, lookupVars, managerVars, functionVars, overlapVars>>

\* the action of the command: --verbose sets the environment variable, then
\* handlePortCommand takes the port from the command line or asks for it
CliAction ==
    /\ cpc = "action"
    /\ cenv' = IF copts.verbose THEN [cenv EXCEPT !.PORTKILL_LOG_LEVEL = "DEBUG"]
               ELSE cenv
    /\ ctrace' = ctrace
                 \o (IF copts.verbose THEN <<LoggerCall("CLI", "INFO")>> ELSE <<>>)
                 \o (IF copts.port THEN <<>>
                     ELSE <<Prompted("port", 0, <<>>, "given")>>)
                 \o <<LoggerCall("CLI", "DEBUG"), Printed("checking", <<>>)>>
    /\ cpc' = "checkPort"
    /\ UNCHANGED <<cliSource, copts, clevels, cprocs, ci, crounds, cliFrame>>

\* handlePortCommand: checkPort, then the branch on the number of processes;
\* a rejection is reported and the program exits with status 1
CliCheckPort ==
    /\ cpc = "checkPort"
    /\ \E o \in CheckPortOutcomes :
        /\ ctrace' = ctrace
                     \o <<CalledCheckPort(o), LoggerCall("PortManager", "DEBUG")>>
                     \o (IF o.threw THEN <<Printed("error", <<>>)>>
                         ELSE <<LoggerCall("PortManager", "DEBUG")>>
                              \o (IF Len(o.list) = 0
                                  THEN <<Printed("available", <<>>)>>
                                  ELSE <<Printed("found", o.list)>>))
        /\ cprocs' = o.list
        /\ cpc' = IF o.threw THEN "exited"
                  ELSE IF Len(o.list) = 0 THEN "done"
                  ELSE IF Len(o.list) = 1 THEN "single"
                  ELSE "multiple"
    /\ UNCHANGED <<cliSource, copts, cenv, clevels, ci, crounds, cliFrame>>

\* handleSingleProcess
CliHandleSingleProcess ==
    /\ cpc = "single"
    /\ \E answer \in (IF copts.yes THEN {TRUE} ELSE BOOLEAN) :
       \E out \in (IF ShouldKill(copts.yes, answer) THEN KillOutcomes ELSE {"none"}) :
       \E r \in {KillProcessWithFeedback(out)} :
        /\ ctrace' = ctrace
                     \o (IF copts.yes THEN <<>>
                         ELSE <<Prompted("confirm", cprocs[1], <<>>, Answer(answer))>>)
                     \o (IF ShouldKill(copts.yes, answer)
                         THEN <<CalledKill(cprocs[1], out)>>
                              \o (IF r.threw THEN <<Printed("error", <<>>)>>
                                  ELSE IF r.success THEN <<Printed("terminated", <<>>)>>
                                  ELSE <<Printed("failed", <<cprocs[1]>>)>>)
                         ELSE <<Printed("not terminated", <<cprocs[1]>>)>>)
        /\ cpc' = IF r.threw THEN "exited" ELSE "done"
    /\ UNCHANGED <<cliSource, copts, cenv, clevels, cprocs, ci, crounds, cliFrame>>

\* handleMultipleProcesses: with --yes every process is killed; without it
\* src/cli.ts asks about each process and the other source shows the menu
CliHandleMultipleProcesses ==
    /\ cpc = "multiple"
    /\ cpc' = IF copts.yes
              THEN (IF cliSource = "src/cli.ts" THEN "autoKill" ELSE "killAll")
              ELSE (IF cliSource = "src/cli.ts" THEN "promptEach" ELSE "menu")
    /\ ci' = 1
    /\ ctrace' = ctrace \o (IF copts.yes THEN <<Printed("auto-killing", cprocs)>>
                            ELSE <<>>)
    /\ UNCHANGED <<cliSource, copts, cenv, clevels, cprocs, crounds, cliFrame>>

\* one round of the --yes loop of src/cli.ts
CliAutoKillStep ==
    /\ cpc = "autoKill"
    /\ \E out \in KillOutcomes :
       \E r \in {AutoKillAttempt(out)} :
        /\ ctrace' = ctrace
                     \o <<CalledKill(cprocs[ci], out)>>
                     \o (IF r.threw THEN <<Printed("error", <<>>)>>
                         ELSE IF out = "threw" THEN <<Printed("failed", <<cprocs[ci]>>)>>
                         ELSE <<>>)
        /\ cpc' = IF r.threw THEN "exited"
                  ELSE IF ci = Len(cprocs) THEN "done" ELSE "autoKill"
    /\ ci' = ci + 1
    /\ UNCHANGED <<cliSource, copts, cenv, clevels, cprocs, crounds, cliFrame>>

\* one round of the prompting loop of src/cli.ts; the summary follows the
\* last round
CliPromptEachStep ==
    /\ cpc = "promptEach"
    /\ \E answer \in BOOLEAN :
       \E out \in (IF answer THEN KillOutcomes ELSE {"none"}) :
       \E r \in {PromptedKillAttempt(out)} :
        /\ ctrace' = ctrace
                     \o <<Prompted("confirm", cprocs[ci], <<>>, Answer(answer))>>
                     \o (IF answer
                         THEN <<CalledKill(cprocs[ci], out)>>
                              \o (IF r.threw THEN <<Printed("error", <<>>)>>
                                  ELSE IF r.success
                                  THEN <<Printed("terminated", <<>>)>>
                                  ELSE <<Printed("failed", <<cprocs[ci]>>)>>)
                         ELSE <<Printed("not terminated", <<cprocs[ci]>>)>>)
                     \o (IF ci = Len(cprocs) /\ ~(answer /\ r.threw)
                         THEN <<Printed("summary", cprocs)>> ELSE <<>>)
        /\ cpc' = IF answer /\ r.threw THEN "exited"
                  ELSE IF ci = Len(cprocs) THEN "done" ELSE "promptEach"
    /\ ci' = ci + 1
    /\ UNCHANGED <<cliSource, copts, cenv, clevels, cprocs, crounds, cliFrame>>

\* one round of showProcessMenu: the menu, the chosen branch, and for a kill
\* of one process the removal of the killed process from the array
CliShowProcessMenu ==
    /\ cpc = "menu"
    /\ crounds < MaxRounds
    /\ crounds' = crounds + 1
    /\ \E c \in MenuChoices(cprocs) :
        \/ /\ c.action = "cancel"
           /\ ctrace' = ctrace \o <<Prompted("menu", 0, cprocs, "cancel"),
                                    Printed("cancelled", cprocs)>>
           /\ cpc' = "done"
           /\ UNCHANGED <<cprocs, ci>>
        \/ /\ c.action = "kill_all"
           /\ \E confirm \in BOOLEAN :
               /\ ctrace' = ctrace \o <<Prompted("menu", 0, cprocs, "kill_all"),
                                        Prompted("confirmAll", 0, cprocs, Answer(confirm))>>
               /\ cpc' = IF confirm THEN "killAll" ELSE "menu"
           /\ ci' = 1
           /\ UNCHANGED cprocs
        \/ /\ c.action = "kill"
           /\ \E out \in KillOutcomes :
              \E r \in {KillProcessWithFeedback(out)} :
              \E rest \in {IF r.success THEN Splice(cprocs, c.index) ELSE cprocs} :
               /\ ctrace' = ctrace
                            \o <<Prompted("menu", cprocs[c.index], cprocs, "kill"),
                                 CalledKill(cprocs[c.index], out)>>
                            \o (IF r.threw THEN <<Printed("error", <<>>)>>
                                ELSE IF ~r.success THEN <<Printed("failed", <<cprocs[c.index]>>)>>
                                ELSE IF Len(rest) = 0
                                THEN <<Printed("all terminated", rest)>>
                                ELSE <<Printed("still running", rest)>>)
               /\ cprocs' = rest
               /\ cpc' = IF r.threw THEN "exited"
                         ELSE IF r.success /\ Len(rest) = 0 THEN "done"
                         ELSE "menu"
           /\ UNCHANGED ci
    /\ UNCHANGED <<cliSource, copts, cenv, clevels, cliFrame>>

\* one round of the loop of killAllProcesses; the summary follows the last
\* round
CliKillAllStep ==
    /\ cpc = "killAll"
    /\ \E out \in KillOutcomes :
       \E r \in {KillProcessWithFeedback(out)} :
        /\ ctrace' = ctrace
                     \o <<CalledKill(cprocs[ci], out)>>
                     \o (IF r.threw THEN <<Printed("error", <<>>)>>
                         ELSE IF ci = Len(cprocs) THEN <<Printed("summary", cprocs)>>
                         ELSE <<>>)
        /\ cpc' = IF r.threw THEN "exited"
                  ELSE IF ci = Len(cprocs) THEN "done" ELSE "killAll"
    /\ ci' = ci + 1
    /\ UNCHANGED <<cliSource, copts, cenv, clevels, cprocs, crounds, cliFrame>>

\* the program after `new CLI()`: the CLI's logger and the port manager's
\* logger exist, each holding the level it read from the environment
CliInit ==
    /\ platform = "unix"
    /\ KillIdle
    /\ LookupIdle
    /\ ManagerIdle
    /\ FunctionIdle
    /\ OverlapIdle
    /\ cliSource \in CliSources
    /\ copts \in [yes : BOOLEAN, verbose : BOOLEAN, port : BOOLEAN]
    /\ cenv \in CliEnvs
    /\ clevels = [CLI |-> GetLogLevel(cenv), PortManager |-> GetLogLevel(cenv)]
    /\ cpc = "action"
    /\ cprocs = <<>>
    /\ ci = 0
    /\ crounds = 0
    /\ ctrace = <<>>

CliNext ==
    \/ CliAction
    \/ CliCheckPort
    \/ CliHandleSingleProcess
    \/ CliHandleMultipleProcesses
    \/ CliAutoKillStep
    \/ CliPromptEachStep
    \/ CliShowProcessMenu
    \/ CliKillAllStep

\* one run of the port command against every behaviour of the port manager
\* and every answer of the user
SpecCli == CliInit /\ [][CliNext]_vars

(***************************************************************************)
(* Properties of killProcess.  They read the command log: what each        *)
(* command did (out) and how the helper that issued it ended (ret).        *)
(***************************************************************************)
GracefulCommands == {"kill -TERM", "taskkill"}
ForcedCommands == {"kill -KILL", "taskkill /F"}
PollCommands == {"ps -p", "tasklist"}

\* the exit status and the stderr texts the platform's termination tool uses
\* for a denied signal and for a pid that does not exist
ToolFailureCode(plat) == IF plat = "unix" THEN "1" ELSE "128"
DeniedText(plat) == IF plat = "unix" THEN "Operation not permitted" ELSE "Access is denied"
NoSuchText(plat) == IF plat = "unix" THEN "No such process" ELSE "not found"

\* the termination command failed with the tool's permission-denied report
ReportsDenied(plat, o) ==
    ~o.ok /\ o.code = ToolFailureCode(plat) /\ DeniedText(plat) \in o.stderr

\* the termination command failed saying the process does not exist (and not
\* that the signal was denied), with any exit status
SaysNoSuchProcess(plat, o) ==
    ~o.ok /\ NoSuchText(plat) \in o.stderr /\ DeniedText(plat) \notin o.stderr

\* the same, with the exit status the tool uses for it
ReportsNoSuchProcess(plat, o) ==
    SaysNoSuchProcess(plat, o) /\ o.code = ToolFailureCode(plat)

KillDone == kpc = "done"

\* C1: killProcess issues the graceful command first and once, then a liveness
\* poll; a poll that reports "not running" ends it with true and no forced
\* command; a poll that reports "running" is followed by the forced command,
\* once, then a second poll, and the return value is true iff that second poll
\* reports "not running".
C1_GracefulThenForced ==
    /\ Len(klog) <= 4
    /\ \A i \in DOMAIN klog :
        /\ klog[i].pid = kpid
        /\ (i = 1) <=> (klog[i].cmd \in GracefulCommands)
        /\ (i = 3) <=> (klog[i].cmd \in ForcedCommands)
        /\ (i \in {2, 4}) <=> (klog[i].cmd \in PollCommands)
    /\ (Len(klog) = 1 /\ klog[1].ret = "ok") => kpc = "poll1"
    /\ (Len(klog) >= 2 /\ klog[2].ret = "not running")
          => (Len(klog) = 2 /\ KillDone /\ kresult = Return(TRUE))
    /\ (Len(klog) = 2 /\ klog[2].ret = "running") => (kpc = "forced" /\ kresult = Pending)
    /\ Len(klog) >= 3 => klog[2].ret = "running"
    /\ (Len(klog) = 3 /\ klog[3].ret = "ok") => kpc = "poll2"
    /\ Len(klog) = 4 => (KillDone /\ kresult = Return(klog[4].ret = "not running"))
    /\ kresult.status = "return" => Len(klog) \in {2, 4}

\* C1's case: both polls report the process running, killProcess returns false
C1_Witness ==
    /\ KillDone /\ Len(klog) = 4
    /\ klog[2].ret = "running" /\ klog[4].ret = "running"
    /\ kresult = Return(FALSE)

\* C2 as stated: whenever the graceful command fails reporting "no such
\* process", killProcess returns true whatever the liveness polls report (runs
\* in which a later termination command fails are left out).
C2_NoSuchProcessAlwaysTrue ==
    (/\ KillDone
     /\ ReportsNoSuchProcess(platform, klog[1].out)
     /\ \A i \in DOMAIN klog : i > 1 => klog[i].ret # "threw")
        => kresult = Return(TRUE)

\* C2 amended: when the graceful command fails reporting "no such process",
\* the step raises no error, and killProcess returns true if the liveness poll
\* that follows reports "not running"; if it reports "running" the forced step
\* runs and the second poll decides the return value, and an error can only
\* come from the forced command.
C2_NoSuchProcessThenPoll ==
    (Len(klog) >= 1 /\ ReportsNoSuchProcess(platform, klog[1].out)) =>
        /\ klog[1].ret = "ok"
        /\ (Len(klog) >= 2 /\ klog[2].ret = "not running")
              => (KillDone /\ kresult = Return(TRUE))
        /\ Len(klog) = 4 => kresult = Return(klog[4].ret = "not running")
        /\ kresult.status = "throw" => (Len(klog) = 3 /\ klog[3].ret = "threw")

\* C2's case: graceful "no such process", the poll finds nothing, result true
C2_Witness ==
    /\ KillDone /\ Len(klog) = 2
    /\ ReportsNoSuchProcess(platform, klog[1].out)
    /\ kresult = Return(TRUE)

C4_NoSuchAnyExitCode ==
    \A i \in DOMAIN klog :
        (klog[i].cmd \in GracefulCommands \cup ForcedCommands
         /\ SaysNoSuchProcess(platform, klog[i].out))
            => klog[i].ret = "ok"

\* C4 amended: on both adapters and for both steps, a termination command that
\* fails with the tool's exit status (1 on Unix, 128 on Windows) saying "no
\* such process" / "not found" counts as success of its step: the step raises
\* nothing and killProcess goes on to the liveness poll.  With any other exit
\* status the same text makes killProcess fail with SystemError.
C4_NoSuchToolExitCode ==
    \A i \in DOMAIN klog :
        /\ (klog[i].cmd \in GracefulCommands \cup ForcedCommands
            /\ ReportsNoSuchProcess(platform, klog[i].out))
               => /\ klog[i].ret = "ok"
                  /\ i = Len(klog) => (kpc \in {"poll1", "poll2"} /\ kresult = Pending)
                  /\ kresult.status = "throw" => i < Len(klog)
        /\ (klog[i].cmd \in GracefulCommands \cup ForcedCommands
            /\ SaysNoSuchProcess(platform, klog[i].out)
            /\ klog[i].out.code # ToolFailureCode(platform))
               => /\ klog[i].ret = "threw"
                  /\ i = Len(klog)
                  /\ KillDone
                  /\ kresult.status = "throw"
                  /\ kresult.err.kind = "SystemError"

\* C4's case: the forced taskkill reports "not found" with exit status 128
C4_Witness ==
    /\ platform = "windows"
    /\ Len(klog) = 4
    /\ ReportsNoSuchProcess(platform, klog[3].out)
    /\ "not recognized" \in klog[3].out.stderr

\* C5: a liveness command that fails is read as "not running": killProcess
\* returns true at once, after the first poll without any forced command.
C5_PollFailureIsNotRunning ==
    \A i \in DOMAIN klog :
        (klog[i].cmd \in PollCommands /\ ~klog[i].out.ok)
            => /\ klog[i].ret = "not running"
               /\ i = Len(klog)
               /\ KillDone
               /\ kresult = Return(TRUE)

\* C5's case: the second poll's command fails
C5_Witness ==
    /\ Len(klog) = 4
    /\ ~klog[4].out.ok
    /\ kresult = Return(TRUE)

(***************************************************************************)
(* Properties of the lookups.                                              *)
(***************************************************************************)
FindDone == fpc = "done" /\ fport # 0
FindSucceeded == FindDone /\ fexec.ok
FindFailed == FindDone /\ ~fexec.ok
DetailsFailed == fpc = "done" /\ dpid # 0 /\ ~dexec.ok

\* the pids findProcessByPort returned, in order, and as a set
ReportedPidSeq == [i \in DOMAIN fresult.value |-> fresult.value[i].pid]
ReportedPids == {fresult.value[i].pid : i \in DOMAIN fresult.value}

\* an lsof data line with a usable pid column
LsofLineHasPid(parts) ==
    Len(parts) >= 9 /\ ~ParseInt(parts[2]).nan /\ ParseInt(parts[2]).val > 0

\* an lsof line of a UDP socket: its NODE column says UDP
LsofLineIsUdp(parts) == parts[8] = "UDP"

\* an lsof line that shows LISTEN or ESTABLISHED, or is a UDP socket
LsofLineShouldCount(parts) ==
    \/ \E j \in 9..Len(parts) : parts[j] \in {"(LISTEN)", "(ESTABLISHED)"}
    \/ LsofLineIsUdp(parts)

\* C6: the Unix findProcessByPort reports the process of a socket line iff the
\* line shows LISTEN or ESTABLISHED or is a UDP socket line; lines in another
\* TCP state do not count, and a UDP line (the first that counts for its pid)
\* is reported with protocol UDP.
C6_UnixRelevantLines ==
    (FindSucceeded /\ platform = "unix") =>
        \A i \in 2..Len(fexec.lines) :
            LET parts == fexec.lines[i] IN
            LsofLineHasPid(parts) =>
                LET pid == ParseInt(parts[2]).val IN
                /\ LsofLineShouldCount(parts) => pid \in ReportedPids
                /\ pid \in ReportedPids =>
                      \E j \in 2..Len(fexec.lines) :
                          /\ LsofLineHasPid(fexec.lines[j])
                          /\ ParseInt(fexec.lines[j][2]).val = pid
                          /\ LsofLineShouldCount(fexec.lines[j])
                /\ (/\ LsofLineIsUdp(parts)
                    /\ \A j \in 2..(i - 1) :
                          ~(/\ LsofLineHasPid(fexec.lines[j])
                            /\ ParseInt(fexec.lines[j][2]).val = pid
                            /\ LsofLineShouldCount(fexec.lines[j])))
                      => \E k \in DOMAIN fresult.value :
                            fresult.value[k].pid = pid /\ fresult.value[k].protocol = "UDP"

\* the pid of a line that passes the adapter's filters (the line is on the
\* port, in a state that counts, with a positive pid), as <<pid>>; <<>> if not
KeptPid(plat, port, parts) ==
    IF plat = "unix"
    THEN IF LsofLineHasPid(parts) /\ UnixIsRelevant(parts)
         THEN <<ParseInt(parts[2]).val>> ELSE <<>>
    ELSE IF Len(parts) < 4 \/ ~PortPatternTest(port, parts[2]) THEN <<>>
         ELSE IF ToUpperCase(parts[1]) = "TCP"
         THEN IF /\ Len(parts) >= 5
                 /\ parts[4] \in {"LISTENING", "ESTABLISHED"}
                 /\ ~ParseInt(parts[5]).nan /\ ParseInt(parts[5]).val > 0
              THEN <<ParseInt(parts[5]).val>> ELSE <<>>
         ELSE IF ToUpperCase(parts[1]) = "UDP"
         THEN IF ~ParseInt(parts[4]).nan /\ ParseInt(parts[4]).val > 0
              THEN <<ParseInt(parts[4]).val>> ELSE <<>>
         ELSE <<>>

\* the first data line of the discovery output
FirstDataLine(plat) == IF plat = "unix" THEN 2 ELSE 1

\* the pids of the kept lines from line i on, each at its first occurrence
RECURSIVE FirstOccurrences(_, _, _, _, _)
FirstOccurrences(plat, port, lines, i, acc) ==
    IF i > Len(lines) THEN acc
    ELSE LET k == KeptPid(plat, port, lines[i]) IN
         IF k = <<>> \/ (\E j \in DOMAIN acc : acc[j] = k[1])
         THEN FirstOccurrences(plat, port, lines, i + 1, acc)
         ELSE FirstOccurrences(plat, port, lines, i + 1, acc \o k)

\* C7: on both adapters findProcessByPort returns no two records with the same
\* pid, and exactly one record for every pid with a line that passes the
\* filter, in the order of their first such lines, also when an earlier line
\* of the pid was filtered out.
C7_OneRecordPerPid ==
    FindSucceeded =>
        /\ \A i, j \in DOMAIN fresult.value :
              fresult.value[i].pid = fresult.value[j].pid => i = j
        /\ ReportedPidSeq =
              FirstOccurrences(platform, fport, fexec.lines, FirstDataLine(platform), <<>>)

\* C7's case: pid 34's first line is in a state that does not count, its
\* second and third do, and pid 34 is reported once
C7_Witness ==
    /\ FindSucceeded
    /\ Len(fexec.lines) = 4
    /\ KeptPid(platform, fport, fexec.lines[2]) = <<>>
    /\ fexec.lines[2][2] = "34"
    /\ KeptPid(platform, fport, fexec.lines[3]) = <<34>>
    /\ KeptPid(platform, fport, fexec.lines[4]) = <<34>>
    /\ ReportedPidSeq = <<34>>

\* the discovery command failed with exit status 1 and no standard output
NoMatchReport == fexec.code = "1" /\ fexec.stdout \in {"undefined", ""}

\* the Unix discovery command failed with exit status 1 saying the tool is missing
LsofMissingReport ==
    platform = "unix" /\ fexec.code = "1" /\ "No such file or directory" \in fexec.stderr

\* C8 as stated: a discovery failure with exit status 1 and no standard output
\* gives the empty list; any other failure raises an error.
C8_NoMatchGivesEmptyList ==
    FindFailed =>
        /\ NoMatchReport => fresult = FReturn(<<>>)
        /\ ~NoMatchReport => fresult.status = "throw"

\* C8 amended: a discovery failure with exit status 1 and no standard output
\* gives the empty list, unless (Unix) its stderr says "No such file or
\* directory", which is reported as SystemError; any other failure raises an
\* error.
C8_NoMatchUnlessToolMissing ==
    FindFailed =>
        /\ (NoMatchReport /\ ~LsofMissingReport) => fresult = FReturn(<<>>)
        /\ LsofMissingReport =>
              (fresult.status = "throw" /\ fresult.err.kind = "SystemError")
        /\ ~NoMatchReport => fresult.status = "throw"

\* C8's case: exit status 1, no output, and the empty list comes back
C8_Witness ==
    /\ FindFailed
    /\ NoMatchReport
    /\ fresult = FReturn(<<>>)

\* C9 as stated: a discovery or detail command failure whose stderr holds the
\* access-denied marker makes the operation fail with PermissionError.
C9_AccessDeniedIsPermissionError ==
    /\ (FindFailed /\ AccessDeniedText(platform) \in fexec.stderr)
          => (fresult.status = "throw" /\ fresult.err.kind = "PermissionError")
    /\ (DetailsFailed /\ AccessDeniedText(platform) \in dexec.stderr)
          => (dresult.threw /\ dresult.err.kind = "PermissionError")

\* C9 amended: a discovery command failure whose stderr holds the access-denied
\* marker makes findProcessByPort fail with PermissionError, unless it is the
\* "no matches" failure (exit status 1, no output: the empty list) or (Unix)
\* the missing-tool failure (SystemError); a detail command failure always
\* makes getProcessDetails fail with SystemError, whatever its stderr.
C9_AccessDeniedDiscoveryOnly ==
    /\ (/\ FindFailed
        /\ AccessDeniedText(platform) \in fexec.stderr
        /\ ~NoMatchReport
        /\ ~LsofMissingReport)
          => (fresult.status = "throw" /\ fresult.err.kind = "PermissionError")
    /\ DetailsFailed => (dresult.threw /\ dresult.err.kind = "SystemError")

\* C9's case: access denied together with a network marker, PermissionError
C9_Witness ==
    /\ FindFailed
    /\ AccessDeniedText(platform) \in fexec.stderr
    /\ "network" \in fexec.stderr
    /\ fresult.status = "throw"
    /\ fresult.err.kind = "PermissionError"

\* the rules of C10, as each adapter tests them
ToolMissingRule ==
    IF platform = "unix"
    THEN fexec.code = "1" /\ "No such file or directory" \in fexec.stderr
    ELSE "not recognized" \in fexec.stderr \/ "not found" \in fexec.stderr
AccessRule == AccessDeniedText(platform) \in fexec.stderr
NetworkRule ==
    \/ fexec.message \cap {"network", "connection", "timeout"} # {}
    \/ "network" \in fexec.stderr
MalformedPortRule == "invalid" \in fexec.stderr

\* the error kind C10's priority order gives the failure
KindByPriority ==
    IF ToolMissingRule THEN "SystemError"
    ELSE IF AccessRule THEN "PermissionError"
    ELSE IF NetworkRule THEN "NetworkError"
    ELSE IF MalformedPortRule THEN "ValidationError"
    ELSE "SystemError"

\* C10: on both adapters a discovery failure (other than the "no matches" one)
\* is reported by the first rule that matches, in the order tool missing,
\* access restricted, network, malformed port, generic; a NetworkError holds
\* the port and the operation, the generic SystemError the command and the
\* exit code.
C10_FailurePriority ==
    (FindFailed /\ ~NoMatchReport) =>
        /\ fresult.status = "throw"
        /\ fresult.err.kind = KindByPriority
        /\ fresult.err.kind = "NetworkError" =>
              (fresult.err.pid = <<fport>> /\ fresult.err.command # "")
        /\ (fresult.err.kind = "SystemError" /\ ~ToolMissingRule) =>
              /\ fresult.err.command # ""
              /\ fresult.err.exitCode =
                    (IF fexec.code = "undefined" THEN "null" ELSE fexec.code)

\* the detail lookup the Windows scan makes for a pid fails: the command is
\* rejected, or its output is empty or not a tasklist row
DetailLookupFails(pid) == WindowsGetProcessDetails(pid, ftasklist[pid]).threw

\* the records findProcessByPort returned for a pid
RecordsOf(pid) == {i \in DOMAIN fresult.value : fresult.value[i].pid = pid}

\* C11: in the Windows findProcessByPort a failed detail lookup neither aborts
\* the scan nor drops the entry: every pid with a matching line is emitted
\* exactly once, with name, user and command "Unknown" when its lookup failed
\* and with the looked-up name when it did not.
C11_DetailFailureKeepsEntry ==
    (FindSucceeded /\ platform = "windows") =>
        \A i \in DOMAIN fexec.lines :
            LET k == KeptPid(platform, fport, fexec.lines[i]) IN
            k # <<>> =>
                /\ Cardinality(RecordsOf(k[1])) = 1
                /\ \A j \in RecordsOf(k[1]) :
                      IF DetailLookupFails(k[1])
                      THEN /\ fresult.value[j].name = "Unknown"
                           /\ fresult.value[j].user = "Unknown"
                           /\ fresult.value[j].command = "Unknown"
                      ELSE fresult.value[j].name = ftasklist[k[1]].row[1]

\* C11's case: the lookup of the first pid fails, the second pid's succeeds,
\* and both are reported
C11_Witness ==
    /\ FindSucceeded /\ platform = "windows"
    /\ Len(fresult.value) = 2
    /\ DetailLookupFails(fresult.value[1].pid)
    /\ ~DetailLookupFails(fresult.value[2].pid)
    /\ fresult.value[1].name = "Unknown"
    /\ fresult.value[2].name # "Unknown"

(***************************************************************************)
(* Properties of the PortManager.                                          *)
(***************************************************************************)
\* the last operation ran no part of the initialization
RanNoInitialization == ~mlast.selected /\ ~mlast.constructed /\ ~mlast.compatCalled

\* C12: a PortManager is uninitialized at construction; once initialized it
\* stays initialized, and no later call (of initialize or of an operation)
\* selects an adapter, constructs one or asks isCompatible; a call in which
\* isCompatible reports false fails with SystemError and leaves the manager
\* uninitialized.
C12_InitializedOnce ==
    /\ (mcalls = 0 => ~initialized)
    /\ [][/\ initialized => (initialized' /\ RanNoInitialization')
          /\ mlast'.compat = "false" =>
                /\ mlast'.result.status = "throw"
                /\ mlast'.result.err.kind = "SystemError"
                /\ ~initialized']_vars

\* C12's case: initialize() is called on an initialized manager and does nothing
C12_Witness ==
    /\ mlast.op = "initialize"
    /\ mlast.wasInitialized
    /\ RanNoInitialization
    /\ mlast.result = MReturn(<<>>)
    /\ initialized

\* the operations that initialize lazily
LazyOperations == {"checkPort", "killProcess", "getProcessDetails", "isPortAvailable"}

\* the last call ran the initialization: the adapter was selected and, once
\* selected and constructed, asked for its compatibility
RanInitialization == mlast.selected /\ (mlast.constructed => mlast.compatCalled)

\* C13 as stated: every call of an operation on a manager that is not yet
\* initialized runs the initialization as part of the call.
C13_EveryCallInitializes ==
    (mlast.op \in LazyOperations /\ ~mlast.wasInitialized) => RanInitialization

\* C13 amended: a call of an operation on a manager that is not yet
\* initialized runs the initialization as part of the call when its argument
\* passes validation (and leaves the manager initialized iff isCompatible
\* reported true); when the argument fails validation the call fails with that
\* ValidationError and runs no part of the initialization.
C13_ValidCallInitializes ==
    (mlast.op \in LazyOperations /\ ~mlast.wasInitialized) =>
        IF mlast.validation.threw
        THEN /\ RanNoInitialization
             /\ ~initialized
             /\ mlast.result = MThrow(mlast.validation.err)
             /\ mlast.result.err.kind = "ValidationError"
        ELSE /\ RanInitialization
             /\ initialized <=> mlast.compat = "true"
             /\ mlast.delegated <=> initialized

\* C13's case: killProcess with a valid pid on a fresh manager initializes it
\* and reaches the adapter
C13_Witness ==
    /\ mlast.op = "killProcess"
    /\ ~mlast.wasInitialized
    /\ ~mlast.validation.threw
    /\ RanInitialization
    /\ initialized
    /\ mlast.delegated

\* C14: in every state of a PortManager getAdapter() returns null whenever
\* isInitialized() is false and the adapter whenever it is true.
C14_AdapterIffInitialized ==
    /\ ~IsInitialized => GetAdapter = "null"
    /\ IsInitialized => GetAdapter = "adapter"

\* the last call reached the adapter and the adapter method failed
AdapterFailed == mlast.delegated /\ mlast.adapterOut.threw

\* the message of an error holds one of the network keywords
HasNetworkKeyword(e) ==
    KeywordsIn(e.message) \cap {"network", "connection", "timeout", "unreachable"} # {}

\* C15: in checkPort, killProcess and getProcessDetails an adapter failure of
\* one of the four known classes reaches the caller as the very same error;
\* any other adapter failure reaches the caller as a SystemError, or, in
\* checkPort only and for a message with a network keyword, as a NetworkError.
C15_KnownErrorsPassThrough ==
    (mlast.op \in {"checkPort", "killProcess", "getProcessDetails"} /\ AdapterFailed) =>
        /\ mlast.result.status = "throw"
        /\ IF mlast.adapterOut.err.kind \in
                 {"SystemError", "ValidationError", "PermissionError", "NetworkError"}
           THEN mlast.result.err = mlast.adapterOut.err
           ELSE \/ mlast.result.err.kind = "SystemError"
                \/ /\ mlast.op = "checkPort"
                   /\ HasNetworkKeyword(mlast.adapterOut.err)
                   /\ mlast.result.err.kind = "NetworkError"

\* C15's case: the adapter's killProcess fails with a PermissionError and the
\* caller gets that error
C15_Witness ==
    /\ mlast.op = "killProcess"
    /\ AdapterFailed
    /\ mlast.adapterOut.err.kind = "PermissionError"
    /\ mlast.result = MThrow(mlast.adapterOut.err)

\* C16: an adapter failure of no known class whose message holds a network
\* keyword becomes a NetworkError with the validated port and the label "port
\* check" in checkPort and in isPortAvailable; in killProcess and
\* getProcessDetails it becomes a SystemError, and a NetworkError leaves these
\* two only when the adapter itself threw it.
C16_NetworkOnlyInCheckPort ==
    /\ (/\ AdapterFailed
        /\ ~IsKnownError(mlast.adapterOut.err)
        /\ HasNetworkKeyword(mlast.adapterOut.err)) =>
           IF mlast.op \in {"checkPort", "isPortAvailable"}
           THEN /\ mlast.result.status = "throw"
                /\ mlast.result.err.kind = "NetworkError"
                /\ mlast.result.err.pid = <<mlast.validation.value>>
                /\ mlast.result.err.command = "port check"
           ELSE /\ mlast.result.status = "throw"
                /\ mlast.result.err.kind = "SystemError"
    /\ (/\ mlast.op \in {"killProcess", "getProcessDetails"}
        /\ mlast.result.status = "throw"
        /\ mlast.result.err.kind = "NetworkError") =>
           (AdapterFailed /\ mlast.adapterOut.err = mlast.result.err)

\* C16's case: isPortAvailable("30") meets an unreachable host
C16_Witness ==
    /\ mlast.op = "isPortAvailable"
    /\ mlast.arg = JsString("30")
    /\ AdapterFailed
    /\ mlast.adapterOut.err.kind = "Error"
    /\ mlast.adapterOut.err.message = "host unreachable"
    /\ mlast.result.err.kind = "NetworkError"
    /\ mlast.result.err.pid = <<30>>

\* C17: isPortAvailable(port) returns true iff its checkPort(port) returns an
\* empty list, false iff it returns a list that is not empty, and fails with
\* the error checkPort fails with.
C17_AvailableIffNoProcess ==
    mlast.op = "isPortAvailable" =>
        /\ mlast.checked.status \in {"return", "throw"}
        /\ mlast.checked.status = "return" =>
              /\ mlast.result.status = "return"
              /\ mlast.result.value = TRUE <=> mlast.checked.value = <<>>
              /\ mlast.result.value = FALSE <=> mlast.checked.value # <<>>
        /\ mlast.checked.status = "throw" => mlast.result = mlast.checked

\* C17's case: two processes hold the port
C17_Witness ==
    /\ mlast.op = "isPortAvailable"
    /\ mlast.checked.status = "return"
    /\ Len(mlast.checked.value) = 2
    /\ mlast.result = MReturn(FALSE)

(***************************************************************************)
(* Properties of the validators and of the Process constructor.            *)
(***************************************************************************)
\* the value of a run of digits
RECURSIVE DigitsValue(_, _)
DigitsValue(cs, k) ==
    IF k = 0 THEN 0 ELSE DigitsValue(cs, k - 1) * 10 + DigitValue(cs[k])

\* the integer a string denotes as <<n>> when the string is an integer
\* numeral (an optional sign, then digits and nothing else); <<>> when not
NumeralValue(str) ==
    LET cs == Chars(str)
        signed == Len(cs) >= 1 /\ cs[1] \in {"+", "-"}
        digits == IF signed THEN Tail(cs) ELSE cs
    IN IF Len(digits) >= 1 /\ \A k \in DOMAIN digits : IsDigit(digits[k])
       THEN IF signed /\ cs[1] = "-"
            THEN <<0 - DigitsValue(digits, Len(digits))>>
            ELSE <<DigitsValue(digits, Len(digits))>>
       ELSE <<>>

\* the integer a value stands for: an integer number or an integer numeral
DenotedInteger(v) ==
    IF v.type = "number" /\ v.form = "integer" THEN <<v.num>>
    ELSE IF v.type = "string" THEN NumeralValue(v.str)
    ELSE <<>>

\* C18: validatePort returns p for every integer, or integer numeral string,
\* p with 1 <= p <= 65535, and fails with ValidationError for every other
\* input.
C18_ValidatePortExact ==
    (vfun = "validatePort" /\ vout.done) =>
        LET d == DenotedInteger(vin) IN
        IF d # <<>> /\ d[1] >= 1 /\ d[1] <= 65535
        THEN vout.out = Valid(d[1])
        ELSE vout.out.threw /\ vout.out.err.kind = "ValidationError"

\* C19: validatePid returns the pid for every positive integer, or positive
\* integer numeral string, and fails with ValidationError for every other
\* input.
C19_ValidatePidExact ==
    (vfun = "validatePid" /\ vout.done) =>
        LET d == DenotedInteger(vin) IN
        IF d # <<>> /\ d[1] >= 1
        THEN vout.out = Valid(d[1])
        ELSE vout.out.threw /\ vout.out.err.kind = "ValidationError"

\* the field constraints of a Process, on the options given
PidIsValid(opts) == opts.pid.type = "number" /\ opts.pid.form = "integer" /\ opts.pid.num >= 1
NameIsValid(opts) == opts.name.type = "string" /\ opts.name.str # ""
UserIsValid(opts) == opts.user.type = "string" /\ opts.user.str # ""
ProtocolIsValid(opts) == opts.protocol.type = "string" /\ opts.protocol.str \in {"TCP", "UDP"}
PortIsValid(opts) ==
    /\ opts.port.type = "number" /\ opts.port.form = "integer"
    /\ opts.port.num >= 1 /\ opts.port.num <= 65535
CommandIsValid(opts) == opts.command.type \in {"undefined", "string"}

\* C20: constructing a Process with an invalid pid, name, user, protocol or
\* port fails and yields no instance; with all fields valid (the command a
\* string, or left out) it yields an instance whose accessors return the
\* given values, the command defaulting to the empty string.
C20_ProcessConstruction ==
    (vfun = "Process" /\ vout.done) =>
        /\ (\/ ~PidIsValid(vin) \/ ~NameIsValid(vin) \/ ~UserIsValid(vin)
            \/ ~ProtocolIsValid(vin) \/ ~PortIsValid(vin)) => vout.out.threw
        /\ (/\ PidIsValid(vin) /\ NameIsValid(vin) /\ UserIsValid(vin)
            /\ ProtocolIsValid(vin) /\ PortIsValid(vin) /\ CommandIsValid(vin)) =>
              /\ ~vout.out.threw
              /\ vout.out.value.pid = vin.pid.num
              /\ vout.out.value.name = vin.name.str
              /\ vout.out.value.user = vin.user.str
              /\ vout.out.value.protocol = vin.protocol.str
              /\ vout.out.value.port = vin.port.num
              /\ vout.out.value.command =
                    (IF vin.command.type = "undefined" THEN "" ELSE vin.command.str)

\* C20's case: valid options without a command give an instance whose command
\* is the empty string
C20_Witness ==
    /\ vfun = "Process" /\ vout.done
    /\ vin.command = JsUndefined
    /\ vin.port = JsInteger(65535)
    /\ ~vout.out.threw
    /\ vout.out.value.command = ""
    /\ vout.out.value.port = 65535

\* the value the call handed to the adapter is a validated one: a port in
\* 1..65535 for findProcessByPort, a positive integer for the pid methods
PassedIsValid(c) ==
    IF AdapterMethod(c.op) = "findProcessByPort"
    THEN c.passed \in 1..MaxPort
    ELSE c.passed > 0

\* the call invoked nothing of the adapter: no construction, no isCompatible,
\* no method
NothingInvoked(c) == ~c.selected /\ ~c.constructed /\ ~c.compatCalled /\ ~c.delegated

\* C27: the PortManager hands only validated values to the adapter: every port
\* passed to findProcessByPort is an integer in 1..65535 and every pid passed
\* to killProcess or getProcessDetails is a positive integer; a call whose
\* argument fails validation raises ValidationError, invokes nothing of the
\* adapter and leaves the initialized flag and the adapter reference as they
\* were.
C27_AdapterGetsValidatedValues ==
    [][/\ mlast'.delegated => PassedIsValid(mlast')
       /\ mlast'.validation.threw =>
             /\ mlast'.result.status = "throw"
             /\ mlast'.result.err.kind = "ValidationError"
             /\ NothingInvoked(mlast')
             /\ initialized' = initialized
             /\ adapter' = adapter]_vars

\* an initialized manager rejected an invalid pid, and stayed as it was
C27_Witness ==
    /\ mlast.op = "killProcess"
    /\ mlast.wasInitialized
    /\ mlast.validation.threw
    /\ mlast.result.status = "throw"
    /\ ~mlast.delegated
    /\ initialized
    /\ adapter # "null"

\* C28: when two operations of an uninitialized PortManager overlap (the
\* second begins before the first one's initialize() has completed), the
\* platform is selected, the adapter constructed and its compatibility
\* checked once only, and both operations use the same adapter instance.
C28_OverlapInitializesOnce ==
    overlapped =>
        /\ initSteps.selected <= 1
        /\ initSteps.constructed <= 1
        /\ initSteps.compatChecked <= 1
        /\ (tasks[1].pc = "done" /\ tasks[2].pc = "done") =>
              tasks[1].used = tasks[2].used

\* the termination command that made killProcess throw: the last one issued
FailedCommand == klog[Len(klog)]

\* C29: every SystemError killProcess raises carries an exitCode that is null
\* (absent) or the exit status of the termination command that failed; a
\* SystemError made inside the signal step reaches the caller with that exit
\* status.
C29_ExitCodeIsStatus ==
    (KillDone /\ kresult.status = "throw" /\ kresult.err.kind = "SystemError") =>
        /\ kresult.err.exitCode \in {"null", FailedCommand.out.code}
        /\ LET r == KillStep(platform, kpid, FailedCommand.cmd \in ForcedCommands,
                             FailedCommand.out)
           IN (r.threw /\ r.err.kind = "SystemError") =>
                 kresult.err.exitCode = r.err.exitCode

\* the commands of one kind killProcess has issued
IssuedOf(cmds) == {i \in DOMAIN klog : klog[i].cmd \in cmds}

\* C30: provided every external command returns, a killProcess that was
\* called ends, with one outcome among true, false, PermissionError and
\* SystemError, after at most two termination commands (the graceful one and
\* the forced one, at most once each) and at most two liveness polls.
C30_KillTerminates ==
    /\ [](/\ Cardinality(IssuedOf(GracefulCommands)) <= 1
          /\ Cardinality(IssuedOf(ForcedCommands)) <= 1
          /\ Cardinality(IssuedOf(PollCommands)) <= 2
          /\ Len(klog) <= 4
          /\ KillDone =>
                \/ kresult.status = "return" /\ kresult.value \in BOOLEAN
                \/ /\ kresult.status = "throw"
                   /\ kresult.err.kind \in {"PermissionError", "SystemError"}
          /\ ~KillDone => kresult = Pending)
    /\ (kpc # "idle") ~> KillDone

\* killProcess ended with true after the whole escalation: two termination
\* commands and two polls
C30_Witness ==
    /\ KillDone
    /\ Cardinality(IssuedOf(GracefulCommands) \cup IssuedOf(ForcedCommands)) = 2
    /\ Cardinality(IssuedOf(PollCommands)) = 2
    /\ kresult = Return(TRUE)

(***************************************************************************)
(* Properties of the Process serialization.                                *)
(***************************************************************************)
\* a Process was built and then written and rebuilt
RoundTripDone ==
    /\ vfun \in {"fromObject", "fromJSON"}
    /\ vout.done
    /\ ~vout.out.threw

\* C21: for every valid Process p, Process.fromObject(p.toObject()) and
\* Process.fromJSON(p.toJSON()) build a Process, and its six fields pid, name,
\* user, protocol, port and command equal those of p.
C21_RoundTripIsLossless ==
    RoundTripDone =>
        /\ ~vout.out.back.threw
        /\ \A k \in 1..Len(ProcessKeys) :
              vout.out.back.value[ProcessKeys[k]] = vout.out.value[ProcessKeys[k]]

\* a Process whose name holds a quote and whose command was left out came back
\* from its JSON text
C21_Witness ==
    /\ vfun = "fromJSON"
    /\ vout.done
    /\ ~vout.out.threw
    /\ vin.name = JsString("a\"b")
    /\ vin.command = JsUndefined
    /\ ~vout.out.back.threw
    /\ vout.out.back.value.name = "a\"b"
    /\ vout.out.back.value.command = ""

(***************************************************************************)
(* Properties of the port command.  They read ctrace.                      *)
(***************************************************************************)
TraceIndexes == 1..Len(ctrace)

\* the attempts on processes so far, in order
IsKill(e) == e.ev = "killProcess"
KillAttempts == SelectSeq(ctrace, IsKill)
AttemptedPids == [k \in 1..Len(KillAttempts) |-> KillAttempts[k].pid]

\* checkPort has returned, and the list it returned
CheckPortReturned ==
    \E k \in TraceIndexes : ctrace[k].ev = "checkPort" /\ ctrace[k].out = "returned"
ReturnedList ==
    IF CheckPortReturned
    THEN ctrace[CHOOSE k \in TraceIndexes : ctrace[k].ev = "checkPort"].list
    ELSE <<>>

\* a prompt that asks whether to kill
AsksToKill(e) == e.ev = "prompt" /\ e.what \in {"confirm", "menu", "confirmAll"}

\* C22: with --yes the port command asks for no confirmation and attempts
\* killProcess once for every process checkPort returned, in the order of the
\* list: the attempts made so far are the beginning of the list, the command
\* ends only after the whole list, and no failed attempt (false or a thrown
\* error) ends it early.
C22_YesKillsEveryProcess ==
    copts.yes =>
        /\ \A k \in TraceIndexes : ~AsksToKill(ctrace[k])
        /\ Len(AttemptedPids) <= Len(ReturnedList)
        /\ \A k \in 1..Len(AttemptedPids) : AttemptedPids[k] = ReturnedList[k]
        /\ cpc = "done" => AttemptedPids = ReturnedList
        /\ cpc = "exited" => ~CheckPortReturned

\* with --yes, three processes were attempted although the first attempt
\* threw and the second returned false
C22_Witness ==
    /\ copts.yes
    /\ cpc = "done"
    /\ Len(ReturnedList) = 3
    /\ Len(KillAttempts) = 3
    /\ KillAttempts[1].out = "threw"
    /\ KillAttempts[2].out = "false"
    /\ KillAttempts[3].out = "true"

\* the last prompt before position j that asks whether to kill
KillPromptsBefore(j) == {m \in 1..(j - 1) : AsksToKill(ctrace[m])}
LastKillPromptBefore(j) ==
    CHOOSE m \in KillPromptsBefore(j) : \A n \in KillPromptsBefore(j) : n <= m

\* the prompt at m is the user's choice to kill the process attempted at j
Chooses(m, j) ==
    \/ /\ ctrace[m].what = "confirm"
       /\ ctrace[m].out = "yes"
       /\ ctrace[m].pid = ctrace[j].pid
       /\ m = j - 1
    \/ /\ ctrace[m].what = "menu"
       /\ ctrace[m].out = "kill"
       /\ ctrace[m].pid = ctrace[j].pid
       /\ m = j - 1
    \/ /\ ctrace[m].what = "confirmAll"
       /\ ctrace[m].out = "yes"
       /\ \E k \in 1..Len(ctrace[m].list) : ctrace[m].list[k] = ctrace[j].pid
       /\ \A n \in (m + 1)..(j - 1) :
             IsKill(ctrace[n]) /\ ctrace[n].pid # ctrace[j].pid

\* C23: without --yes, killProcess is attempted only for a process the user
\* chose in a prompt of the run: the last prompt before the attempt is a
\* confirmation of that process answered yes, the menu entry of that process,
\* or a confirmed kill-all of a list holding it.  After a prompt the user
\* declined or cancelled, no attempt follows without a new choice.
C23_KillOnlyWhenChosen ==
    ~copts.yes =>
        \A j \in TraceIndexes :
            IsKill(ctrace[j]) =>
                /\ KillPromptsBefore(j) # {}
                /\ Chooses(LastKillPromptBefore(j), j)

\* the user declined the first process, confirmed the second, and only the
\* second was attempted
C23_Witness ==
    /\ ~copts.yes
    /\ cliSource = "src/cli.ts"
    /\ cpc = "done"
    /\ Len(ReturnedList) = 2
    /\ AttemptedPids = <<ReturnedList[2]>>
    /\ \E m \in TraceIndexes :
          /\ ctrace[m].what = "confirm"
          /\ ctrace[m].pid = ReturnedList[1]
          /\ ctrace[m].out = "no"

\* C24: whenever the tool prints 'Operation cancelled - no processes were
\* terminated', no process has been terminated by the tool in the run, and no
\* kill is attempted after the cancel selection.
C24_CancelMeansNothingTerminated ==
    \A j \in TraceIndexes :
        (ctrace[j].ev = "print" /\ ctrace[j].what = "cancelled") =>
            /\ \A k \in 1..(j - 1) : ~(IsKill(ctrace[k]) /\ ctrace[k].out = "true")
            /\ \A k \in (j + 1)..Len(ctrace) : ~IsKill(ctrace[k])

\* C25: when the command runs with --verbose, the debug-level messages the CLI
\* and the PortManager log while the port command is handled are written,
\* whatever the environment was when the program started.
C25_VerboseEmitsDebug ==
    copts.verbose =>
        \A k \in TraceIndexes :
            (ctrace[k].ev = "log" /\ ctrace[k].what = "DEBUG") => ctrace[k].emitted

\* the tool shows the processes that remain, or reports the port as free
ShowsRemaining(e) ==
    \/ e.ev = "prompt" /\ e.what = "menu"
    \/ e.ev = "print" /\ e.what \in {"still running", "all terminated", "terminated"}

\* C26: in interactive mode (no --yes), after a process has been killed the
\* tool queries the port manager for the port's processes again before it
\* shows the remaining processes or reports the port as available.
C26_RecheckAfterKill ==
    ~copts.yes =>
        \A i \in TraceIndexes : \A j \in TraceIndexes :
            (i < j /\ IsKill(ctrace[i]) /\ ctrace[i].out = "true"
                /\ ShowsRemaining(ctrace[j])) =>
                    \E k \in (i + 1)..(j - 1) : ctrace[k].ev = "checkPort"

====
